---- MODULE Spec2Model ----
(***************************************************************************)
(* iconservice: the SCORE deploy storage (IconScoreDeployStorage), the     *)
(* deploy engine (IconScoreDeployEngine) and the builtin SCORE loader,     *)
(* modelled over a flat key-value store.                                   *)
(*                                                                         *)
(* Python values are modelled as strings: an address is its string form,   *)
(* a 32-byte hash is "0x00" (32 zero bytes), "0x01", ..., and Python's     *)
(* None is the string "None".  An exception is the string naming its class *)
(* and message; "None" in the exc field means the call returned normally.  *)
(***************************************************************************)
EXTENDS Integers, Sequences, FiniteSets, TLC

\* ------------------------------------------------------------------ bounds
NumTxHashes == 2
MaxRevision == 2

\* ------------------------------------------------------- program constants
REVISION_2 == 2
None == "None"
ZERO_TX_HASH == "0x00"
ZERO_SCORE_ADDRESS == "cx00"
GOVERNANCE_SCORE_ADDRESS == "cx01"
BUILTIN_SCORE_ADDRESS_MAPPER == {GOVERNANCE_SCORE_ADDRESS}

_DEPLOY_STORAGE_DEPLOY_INFO_PREFIX == "isds|di|"
_DEPLOY_STORAGE_DEPLOY_TX_PARAMS_PREFIX == "isds|dtp|"
_VERSION == 0

\* ------------------------------------------------------------ input values
TxHashes == {"0x0" \o ToString(i) : i \in 1..NumTxHashes}
EOAAddresses == {"hxa1", "hxb2"}
ContractAddresses == {ZERO_SCORE_ADDRESS, GOVERNANCE_SCORE_ADDRESS, "cxa1"}
DeployTypes == {"INSTALL", "UPDATE"}
ContentTypes == {"application/zip", "application/tbears", "text/plain"}
DeployDatas == {[contentType |-> c, content |-> "0x504b", params |-> "{}"] : c \in ContentTypes}

\* -------------------------------------------------------------- exceptions
DuplicateTxParams == "ServerErrorException: deploy_params already exists"
OwnerMismatch == "ServerErrorException: invalid owner"
DeployInfoIsNone == "ServerErrorException: deploy_info is None"
TxHashMismatch == "ServerErrorException: Invalid update tx_hash"
TxParamsIsNone == "ServerErrorException: tx_params is None"
AssertionError == "AssertionError"
StructError == "struct.error: argument for 's' must be a bytes object"
InvalidScoreAddress == "ServerErrorException: Invalid SCORE address"
Blacklisted == "ServerErrorException: The Score is in Black List"
UnauthorizedDeployer == "ServerErrorException: Invalid deployer: no permission"
DeployTxParamsNotFound == "InvalidParamsException: tx_params is None"
InvalidContentType == "InvalidParamsException: Invalid contentType"
MaterializeError == "OSError: deploy failed"
PackageValidateError == "ServerErrorException: package validate failed"
ScoreLoadFailure == "InvalidParamsException: SCORE load failure"
HookError == "RevertException: on_deploy failed"

\* -------------------------------------------------- the key-value store
\* The store is a function from the keys that hold a value to their values.
EmptyDb == [k \in {} |-> None]
DbHas(db, key) == key \in DOMAIN db
DbPut(db, key, value) == [k \in DOMAIN db \cup {key} |-> IF k = key THEN value ELSE db[k]]
DbDelete(db, key) == [k \in DOMAIN db \ {key} |-> db[k]]
_create_db_key(prefix, src_key) == <<prefix, src_key>>

\* A call in progress: the store as the call sees it, the exception it has
\* raised (None while it runs normally) and the store accesses and
\* collaborator calls it has made so far.
\* msg and tx are the context's message sender and transaction (None when cleared).
Start(db, msg, tx) == [db |-> db, exc |-> None, trace |-> <<>>, msg |-> msg, tx |-> tx]
Raise(st, e) == [st EXCEPT !.exc = e]
Log(st, ev) == [st EXCEPT !.trace = Append(@, ev)]
Running(st) == st.exc = None

\* --------------------------------------------------------- record codec
IsBytes(x) == x # None
DeployStateValue(s) == IF s = "INACTIVE" THEN 0 ELSE 1
DeployState(v) == IF v = 0 THEN "INACTIVE" ELSE "ACTIVE"
DeployTypeValue(t) == IF t = "INSTALL" THEN 0 ELSE 1
DeployType(v) == IF v = 0 THEN "INSTALL" ELSE "UPDATE"

\* IconScoreDeployInfo.__init__: asserts that both hashes are bytes; the
\* asserts are compiled away when Python runs with -O (debug = FALSE).
IconScoreDeployInfoAsserts(debug, current_tx_hash, next_tx_hash) ==
    debug => (IsBytes(current_tx_hash) /\ IsBytes(next_tx_hash))

IconScoreDeployInfo(score_address, deploy_state, owner, current_tx_hash, next_tx_hash) ==
    [score_address |-> score_address, deploy_state |-> deploy_state, owner |-> owner,
     current_tx_hash |-> current_tx_hash, next_tx_hash |-> next_tx_hash]

\* struct.pack raises struct.error for an 's' field whose argument is not bytes.
DeployInfoPackable(info) == IsBytes(info.current_tx_hash) /\ IsBytes(info.next_tx_hash)

DeployInfo_to_bytes(info) ==
    <<_VERSION, DeployStateValue(info.deploy_state), info.score_address, info.owner,
      info.current_tx_hash, info.next_tx_hash>>

DeployInfo_from_bytes(buf) ==
    LET deploy_state == IF buf[2] = 2 THEN DeployStateValue("ACTIVE") ELSE buf[2]
    IN  IconScoreDeployInfo(buf[3], DeployState(deploy_state), buf[4], buf[5], buf[6])

IconScoreDeployTXParams(tx_hash, deploy_type, score_address, deploy_data) ==
    [tx_hash |-> tx_hash, deploy_type |-> deploy_type, score_address |-> score_address,
     deploy_data |-> deploy_data]

TxParams_to_bytes(p) ==
    <<_VERSION, DeployTypeValue(p.deploy_type), p.score_address, p.tx_hash, p.deploy_data>>

TxParams_from_bytes(buf) ==
    IconScoreDeployTXParams(buf[4], DeployType(buf[2]), buf[3], buf[5])

\* -------------------------------------------------------- deploy storage
DeployInfoKey(score_address) == _create_db_key(_DEPLOY_STORAGE_DEPLOY_INFO_PREFIX, score_address)
\* A DeployTxParams key without the reserved prefix.
TxParamsKey_bare(tx_hash) == _create_db_key("", tx_hash)

TxParamsKey(tx_hash) == _create_db_key(_DEPLOY_STORAGE_DEPLOY_TX_PARAMS_PREFIX, tx_hash)

\* get_deploy_info / get_deploy_tx_params return None exactly when the key
\* holds no value; HasX is that test and get_x the decoded value otherwise.
HasDeployInfo(db, score_address) == DbHas(db, DeployInfoKey(score_address))
get_deploy_info(db, score_address) == DeployInfo_from_bytes(db[DeployInfoKey(score_address)])
\* A duplicate check that never finds the stored entry.
HasDeployTxParams_never(db, tx_hash) == FALSE

HasDeployTxParams(db, tx_hash) == DbHas(db, TxParamsKey(tx_hash))
get_deploy_tx_params(db, tx_hash) == TxParams_from_bytes(db[TxParamsKey(tx_hash)])

put_deploy_info(st, deploy_info) ==
    IF ~DeployInfoPackable(deploy_info)
    THEN Raise(st, StructError)
    ELSE LET key == DeployInfoKey(deploy_info.score_address)
         IN  Log([st EXCEPT !.db = DbPut(@, key, DeployInfo_to_bytes(deploy_info))],
                 <<"put", key[1], key[2]>>)

put_deploy_tx_params(st, deploy_tx_params) ==
    LET key == TxParamsKey(deploy_tx_params.tx_hash)
    IN  Log([st EXCEPT !.db = DbPut(@, key, TxParams_to_bytes(deploy_tx_params))],
            <<"put", key[1], key[2]>>)

db_delete(st, key) ==
    Log([st EXCEPT !.db = DbDelete(@, key)], <<"delete", key[1], key[2]>>)

\* The key of the superseded pending DeployTxParams that
\* put_deploy_info_and_tx_params deletes: below REVISION_2 the bare hash.
\* The legacy deletion at every revision: the bare hash is the key.
SupersededKey_bare(revision, next_tx_hash) == _create_db_key("", next_tx_hash)

SupersededKey(revision, next_tx_hash) ==
    IF revision >= REVISION_2
    THEN _create_db_key(_DEPLOY_STORAGE_DEPLOY_TX_PARAMS_PREFIX, next_tx_hash)
    ELSE _create_db_key("", next_tx_hash)

\* Owner checks that let another owner through.
OwnerDiffers_never(deploy_info, owner) == FALSE
OwnerDiffers_inverted(deploy_info, owner) == deploy_info.owner = owner

OwnerDiffers(deploy_info, owner) == deploy_info.owner # owner

put_deploy_info_and_tx_params(st0, revision, debug, score_address, deploy_type, owner, tx_hash, deploy_data) ==
    IF HasDeployTxParams(st0.db, tx_hash)
    THEN Raise(st0, DuplicateTxParams)
    ELSE
      LET st1 == put_deploy_tx_params(
                     st0, IconScoreDeployTXParams(tx_hash, deploy_type, score_address, deploy_data))
      IN
      IF ~HasDeployInfo(st1.db, score_address)
      THEN IF ~IconScoreDeployInfoAsserts(debug, None, tx_hash)
           THEN Raise(st1, AssertionError)
           ELSE put_deploy_info(
                    st1, IconScoreDeployInfo(score_address, "INACTIVE", owner, None, tx_hash))
      ELSE
        LET deploy_info == get_deploy_info(st1.db, score_address) IN
        IF OwnerDiffers(deploy_info, owner)
        THEN Raise(st1, OwnerMismatch)
        ELSE
          LET st2 == IF deploy_info.next_tx_hash # None
                     THEN db_delete(st1, SupersededKey(revision, deploy_info.next_tx_hash))
                     ELSE st1
          IN  put_deploy_info(st2, [deploy_info EXCEPT !.next_tx_hash = tx_hash])

put_deploy_info_and_tx_params_for_builtin(st, debug, score_address, owner) ==
    IF ~IconScoreDeployInfoAsserts(debug, None, None)
    THEN Raise(st, AssertionError)
    ELSE put_deploy_info(st, IconScoreDeployInfo(score_address, "ACTIVE", owner, None, None))

\* A hash check that accepts every hash.
TxHashDiffers_never(tx_hash, next_tx_hash) == FALSE

TxHashDiffers(tx_hash, next_tx_hash) == tx_hash # None /\ tx_hash # next_tx_hash

update_score_info(st0, score_address, tx_hash) ==
    IF ~HasDeployInfo(st0.db, score_address)
    THEN Raise(st0, DeployInfoIsNone)
    ELSE
      LET deploy_info == get_deploy_info(st0.db, score_address)
          next_tx_hash == deploy_info.next_tx_hash
      IN
      IF TxHashDiffers(tx_hash, next_tx_hash)
      THEN Raise(st0, TxHashMismatch)
      ELSE
        LET activated == [deploy_info EXCEPT !.current_tx_hash = next_tx_hash,
                                             !.next_tx_hash = None,
                                             !.deploy_state = "ACTIVE"]
            st1 == put_deploy_info(st0, activated)
        IN
        IF ~Running(st1) THEN st1
        ELSE IF ~HasDeployTxParams(st1.db, activated.current_tx_hash)
             THEN Raise(st1, TxParamsIsNone)
             ELSE st1

\* A query that finds no SCORE active.
is_score_active_never(db, score_address) == FALSE

\* A query that finds a SCORE active only while no deployment is pending.
is_score_active_unless_pending(db, score_address) ==
    IF ~HasDeployInfo(db, score_address) THEN FALSE
    ELSE /\ get_deploy_info(db, score_address).deploy_state = "ACTIVE"
         /\ get_deploy_info(db, score_address).next_tx_hash = ZERO_TX_HASH

is_score_active(db, score_address) ==
    IF ~HasDeployInfo(db, score_address) THEN FALSE
    ELSE get_deploy_info(db, score_address).deploy_state = "ACTIVE"

\* get_score_owner: the owner of the record, None without a record.
get_score_owner(db, score_address) ==
    IF ~HasDeployInfo(db, score_address) THEN None
    ELSE get_deploy_info(db, score_address).owner

\* --------------------------------------------------------- deploy engine
\* The ambient execution context of a call: the AUDIT service flag, the
\* legacy tbears mode, and the first collaborator step that fails when it is
\* reached ("none": every collaborator succeeds).  "blacklist": the target
\* is on the deny-list; "deployer": the DEPLOYER_WHITE_LIST flag is on and the
\* originator is not allow-listed; "validator": the SCORE_PACKAGE_VALIDATOR
\* flag is on and validation fails; "materialize", "load", "hook": writing the
\* package, importing the class, running on_install/on_update fails.
FailPoints == {"none", "blacklist", "deployer", "materialize", "validator", "load", "hook"}
Contexts == [audit : BOOLEAN, legacy_tbears_mode : BOOLEAN, fail : FailPoints]

is_contract(address) == address \in ContractAddresses
is_builtin_score(address) == address \in BUILTIN_SCORE_ADDRESS_MAPPER
\* IconScoreContextUtil.get_owner: the owner the deploy storage records.
get_owner(db, icon_score_address) == get_score_owner(db, icon_score_address)

\* An audit gate that exempts every builtin SCORE and every owner.
_is_audit_needed_either(db, revision, is_audit_enabled, origin, icon_score_address) ==
    LET is_system_score == IF revision >= REVISION_2
                           THEN is_builtin_score(icon_score_address)
                           ELSE FALSE
        is_owner == origin = get_owner(db, icon_score_address)
    IN  is_audit_enabled /\ ~(is_system_score \/ is_owner)

_is_audit_needed(db, revision, is_audit_enabled, origin, icon_score_address) ==
    LET is_system_score == IF revision >= REVISION_2
                           THEN is_builtin_score(icon_score_address)
                           ELSE FALSE
        is_owner == origin = get_owner(db, icon_score_address)
    IN  is_audit_enabled /\ ~(is_system_score /\ is_owner)

HookOf(deploy_type) == IF deploy_type = "INSTALL" THEN "on_install" ELSE "on_update"

\* The try block of _on_deploy: validate, load, create, switch msg/tx, run the hook.
_on_deploy_try(st0, ctx, tx_params, next_tx_hash) ==
    LET score_address == tx_params.score_address
        st1 == Log(st0, <<"validate", score_address, next_tx_hash>>)
        st2 == Log(st0, <<"load_score_info", score_address, next_tx_hash>>)
        owner == get_score_owner(st0.db, score_address)
        st3 == [st2 EXCEPT !.msg = owner, !.tx = None]
        st4 == Log(st3, <<HookOf(tx_params.deploy_type), st3.msg, st3.tx>>)
    IN  IF ctx.fail = "validator" THEN Raise(st1, PackageValidateError)
        ELSE IF ctx.fail = "load" THEN Raise(st2, ScoreLoadFailure)
        ELSE IF ctx.fail = "hook" THEN Raise(st4, HookError)
        ELSE st4

\* _on_deploy without its finally block: msg and tx stay as the hook saw them.
_on_deploy_no_finally(st0, ctx, tx_params) ==
    LET score_address == tx_params.score_address
        next_tx_hash0 == IF ~HasDeployInfo(st0.db, score_address) THEN None
                         ELSE get_deploy_info(st0.db, score_address).next_tx_hash
        next_tx_hash == IF next_tx_hash0 = None THEN ZERO_TX_HASH ELSE next_tx_hash0
        st1 == Log(st0, <<"materialize", score_address, next_tx_hash>>)
    IN  IF ctx.fail = "materialize" THEN Raise(st1, MaterializeError)
        ELSE _on_deploy_try(st1, ctx, tx_params, next_tx_hash)

_on_deploy(st0, ctx, tx_params) ==
    LET score_address == tx_params.score_address
        next_tx_hash0 == IF ~HasDeployInfo(st0.db, score_address) THEN None
                         ELSE get_deploy_info(st0.db, score_address).next_tx_hash
        next_tx_hash == IF next_tx_hash0 = None THEN ZERO_TX_HASH ELSE next_tx_hash0
        st1 == Log(st0, <<"materialize", score_address, next_tx_hash>>)
    IN  IF ctx.fail = "materialize" THEN Raise(st1, MaterializeError)
        ELSE LET backup_msg == st1.msg
                 backup_tx == st1.tx
                 st2 == _on_deploy_try(st1, ctx, tx_params, next_tx_hash)
             IN  [st2 EXCEPT !.msg = backup_msg, !.tx = backup_tx]

\* A content-type check that lets every content type through.
_score_deploy_any(st, ctx, tx_params) == _on_deploy(st, ctx, tx_params)

_score_deploy(st, ctx, tx_params) ==
    LET content_type == tx_params.deploy_data.contentType IN
    IF content_type = "application/tbears"
    THEN IF ~ctx.legacy_tbears_mode THEN Raise(st, InvalidContentType)
         ELSE _on_deploy(st, ctx, tx_params)
    ELSE IF content_type = "application/zip"
         THEN _on_deploy(st, ctx, tx_params)
         ELSE Raise(st, InvalidContentType)

deploy(st0, ctx, tx_hash) ==
    IF ~HasDeployTxParams(st0.db, tx_hash)
    THEN Raise(st0, DeployTxParamsNotFound)
    ELSE LET tx_params == get_deploy_tx_params(st0.db, tx_hash)
             st1 == _score_deploy(st0, ctx, tx_params)
         IN  IF ~Running(st1) THEN st1
             ELSE update_score_info(
                      Log(st1, <<"update_score_info", tx_params.score_address, tx_hash>>),
                      tx_params.score_address, tx_hash)

write_deploy_info_and_tx_params(st, revision, debug, deploy_type, icon_score_address, origin, tx_hash, data) ==
    put_deploy_info_and_tx_params(
        Log(st, <<"put_deploy_info_and_tx_params", icon_score_address, tx_hash>>),
        revision, debug, icon_score_address, deploy_type, origin, tx_hash, data)

InvokeAsserts(debug, icon_score_address) ==
    debug => (icon_score_address # ZERO_SCORE_ADDRESS /\ is_contract(icon_score_address))

invoke(st0, ctx, revision, debug, to, icon_score_address, origin, tx_hash, data) ==
    IF ~InvokeAsserts(debug, icon_score_address) THEN Raise(st0, AssertionError)
    ELSE IF icon_score_address = ZERO_SCORE_ADDRESS THEN Raise(st0, InvalidScoreAddress)
    ELSE
      LET deploy_type == IF to = ZERO_SCORE_ADDRESS THEN "INSTALL" ELSE "UPDATE" IN
      IF ctx.fail = "blacklist" THEN Raise(st0, Blacklisted)
      ELSE IF ctx.fail = "deployer" THEN Raise(st0, UnauthorizedDeployer)
      ELSE
        LET st1 == write_deploy_info_and_tx_params(
                       st0, revision, debug, deploy_type, icon_score_address, origin,
                       tx_hash, data)
        IN  IF ~Running(st1) THEN st1
            ELSE IF ~_is_audit_needed(st1.db, revision, ctx.audit, origin, icon_score_address)
                 THEN deploy(st1, ctx, tx_hash)
                 ELSE st1

\* ------------------------------------------------- builtin score loader
BuiltinScoreAddresses == <<GOVERNANCE_SCORE_ADDRESS>>

_load_builtin_score(st0, fail, score_address, builtin_score_owner) ==
    LET deploy_info == IconScoreDeployInfo(score_address, "ACTIVE", builtin_score_owner,
                                           ZERO_TX_HASH, ZERO_TX_HASH)
        tx_hash == deploy_info.current_tx_hash
        st1 == Log(st0, <<"materialize", score_address, tx_hash>>)
        st2 == Log(st1, <<"load_score_info", score_address, tx_hash>>)
        st3 == Log(st2, <<"on_install", st2.msg, st2.tx>>)
    IN  IF fail = "materialize" THEN Raise(st1, MaterializeError)
        ELSE IF fail = "load" THEN Raise(st2, ScoreLoadFailure)
        ELSE IF fail = "hook" THEN Raise(st3, HookError)
        ELSE put_deploy_info(st3, deploy_info)

\* A bootstrap that loads every builtin SCORE, active or not.
RECURSIVE load_builtin_scores_from_all(_, _, _, _)
load_builtin_scores_from_all(st, i, fail, builtin_score_owner) ==
    IF i > Len(BuiltinScoreAddresses) \/ ~Running(st) THEN st
    ELSE load_builtin_scores_from_all(
             _load_builtin_score(st, fail, BuiltinScoreAddresses[i], builtin_score_owner),
             i + 1, fail, builtin_score_owner)

RECURSIVE load_builtin_scores_from(_, _, _, _)
load_builtin_scores_from(st, i, fail, builtin_score_owner) ==
    IF i > Len(BuiltinScoreAddresses) \/ ~Running(st) THEN st
    ELSE LET score_address == BuiltinScoreAddresses[i]
             st1 == IF ~is_score_active(st.db, score_address)
                    THEN _load_builtin_score(st, fail, score_address, builtin_score_owner)
                    ELSE st
         IN  load_builtin_scores_from(st1, i + 1, fail, builtin_score_owner)

load_builtin_scores(st, fail, builtin_score_owner) ==
    load_builtin_scores_from(st, 1, fail, builtin_score_owner)

\* ------------------------------------------------------------ the state
\* db        the state database between two calls
\* revision  the chain's revision
\* last      the last call: its name and arguments, the exception it raised,
\*           the store before it (pre) and at its return or raise (post),
\*           its trace of store accesses and collaborator calls, the
\*           context's msg and tx at its end and, for a query, its result
\* instances the container objects alive in the contract and the fields they
\*           keep outside the store (an ArrayDB caches its size)
VARIABLES db, revision, last, instances

vars == <<db, revision, last, instances>>

\* No container object is alive.
NoInstances == <<>>

NoContext == [audit |-> FALSE, legacy_tbears_mode |-> FALSE, fail |-> "none"]
NoArgs == [to |-> None, score_address |-> None, origin |-> None, tx_hash |-> None,
           deploy_type |-> None, data |-> None, ctx |-> NoContext, revision |-> 0]

Observe(op, args, pre, st) ==
    [op |-> op, args |-> args, exc |-> st.exc, pre |-> pre, post |-> st.db,
     trace |-> st.trace, msg |-> st.msg, tx |-> st.tx, ret |-> FALSE]

\* The caller owns the transaction: the writes of a call that raised are
\* discarded, those of a call that returned are kept.
TxEnd(pre, st) == IF Running(st) THEN st.db ELSE pre

\* Python runs with its assert statements or, under -O, without them: each
\* call is checked for both.
PythonDebug == BOOLEAN

ZipData == [contentType |-> "application/zip", content |-> "0x504b", params |-> "{}"]

\* No call has run, or the result of the last one has been taken.
NoCall == [op |-> "none", args |-> NoArgs, exc |-> None, pre |-> EmptyDb, post |-> EmptyDb,
           trace |-> <<>>, msg |-> None, tx |-> None, ret |-> FALSE]
Idle == last = NoCall

Init ==
    /\ db = EmptyDb
    /\ revision = REVISION_2 - 1
    /\ last = NoCall
    /\ instances = NoInstances

\* Calls run one after another: the caller takes the result of a call
\* before it starts the next one.
TakeResult ==
    /\ ~Idle
    /\ last' = NoCall
    /\ UNCHANGED <<db, revision, instances>>

\* The ruleset revision only grows.
SetRevision ==
    /\ Idle
    /\ revision < MaxRevision
    /\ revision' = revision + 1
    /\ UNCHANGED <<db, last, instances>>

\* Start-up: IconBuiltinScoreLoader.load_builtin_scores, writing directly.
LoadBuiltinScores ==
    /\ Idle
    /\ \E owner \in EOAAddresses, fail \in {"none", "materialize", "load", "hook"} :
      LET st == load_builtin_scores(Start(db, None, None), fail, owner) IN
      /\ db' = st.db
      /\ last' = Observe("load_builtin_scores",
                         [NoArgs EXCEPT !.origin = owner, !.revision = revision,
                                        !.ctx = [NoContext EXCEPT !.fail = fail]],
                         db, st)
      /\ UNCHANGED <<revision, instances>>

\* A storage call IconScoreDeployStorage.put_deploy_info_and_tx_params.  The
\* storage stores deploy_data and never reads it: one value is drawn.
PutDeployInfoAndTxParams ==
    /\ Idle
    /\ \E score_address \in ContractAddresses \ {ZERO_SCORE_ADDRESS}, deploy_type \in DeployTypes,
       owner \in EOAAddresses, tx_hash \in TxHashes, data \in {ZipData},
       debug \in PythonDebug :
      LET st == put_deploy_info_and_tx_params(Start(db, owner, tx_hash), revision, debug,
                                              score_address, deploy_type, owner, tx_hash,
                                              data)
      IN
      /\ db' = TxEnd(db, st)
      /\ last' = Observe("put_deploy_info_and_tx_params",
                         [NoArgs EXCEPT !.score_address = score_address,
                                        !.deploy_type = deploy_type, !.origin = owner,
                                        !.tx_hash = tx_hash, !.data = data,
                                        !.revision = revision],
                         db, st)
      /\ UNCHANGED <<revision, instances>>

\* A storage call IconScoreDeployStorage.update_score_info; tx_hash may be None.
UpdateScoreInfo ==
    /\ Idle
    /\ \E score_address \in ContractAddresses \ {ZERO_SCORE_ADDRESS},
       tx_hash \in TxHashes \cup {None} :
      LET st == update_score_info(Start(db, None, None), score_address, tx_hash) IN
      /\ db' = TxEnd(db, st)
      /\ last' = Observe("update_score_info",
                         [NoArgs EXCEPT !.score_address = score_address, !.tx_hash = tx_hash,
                                        !.revision = revision],
                         db, st)
      /\ UNCHANGED <<revision, instances>>

\* The inputs of a deployment transaction.  A target that is rejected at
\* once, a deny-listed target and an unauthorized deployer are drawn with one
\* choice of the inputs that such a transaction never reads.  The content
\* type is read by _score_deploy and the deploy type by the choice of the
\* hook, independently: every content type is drawn for updates, and
\* installs are drawn with zipped content.
InvokeInputs ==
    LET all == [to : ContractAddresses, icon_score_address : ContractAddresses \cup EOAAddresses,
                origin : EOAAddresses, tx_hash : TxHashes, data : DeployDatas,
                ctx : Contexts]
        plain(i) == i.tx_hash = "0x01" /\ ~i.ctx.audit /\ i.data = ZipData
    IN  {i \in all :
           /\ i.to \in {ZERO_SCORE_ADDRESS, i.icon_score_address}
           /\ i.ctx.legacy_tbears_mode => i.data.contentType = "application/tbears"
           /\ ~is_contract(i.icon_score_address) \/ i.icon_score_address = ZERO_SCORE_ADDRESS
                 => plain(i) /\ i.ctx.fail = "none"
           /\ i.ctx.fail \in {"blacklist", "deployer"} => plain(i)
           /\ i.to = ZERO_SCORE_ADDRESS => i.data = ZipData}

\* A deployment transaction: IconScoreDeployEngine.invoke.  The hash of a
\* transaction is new: no DeployTxParams is stored under it.
Invoke ==
    /\ Idle
    /\ \E i \in InvokeInputs, debug \in PythonDebug :
      LET st == invoke(Start(db, i.origin, i.tx_hash), i.ctx, revision, debug, i.to,
                       i.icon_score_address, i.origin, i.tx_hash, i.data)
      IN
      /\ ~HasDeployTxParams(db, i.tx_hash)
      /\ db' = TxEnd(db, st)
      /\ last' = Observe("invoke",
                         [NoArgs EXCEPT !.to = i.to, !.score_address = i.icon_score_address,
                                        !.origin = i.origin, !.tx_hash = i.tx_hash,
                                        !.deploy_type = IF i.to = ZERO_SCORE_ADDRESS
                                                        THEN "INSTALL" ELSE "UPDATE",
                                        !.data = i.data, !.ctx = i.ctx, !.revision = revision],
                         db, st)
      /\ UNCHANGED <<revision, instances>>

\* The accept step of an audit: IconScoreDeployEngine.deploy(context, tx_hash),
\* called from the governance SCORE.
Deploy ==
    /\ Idle
    /\ \E tx_hash \in TxHashes, legacy_tbears_mode \in BOOLEAN,
       fail \in {"none", "materialize", "validator", "load", "hook"} :
      LET ctx == [NoContext EXCEPT !.fail = fail, !.legacy_tbears_mode = legacy_tbears_mode]
          st == deploy(Start(db, GOVERNANCE_SCORE_ADDRESS, None), ctx, tx_hash)
      IN
      /\ db' = TxEnd(db, st)
      /\ last' = Observe("deploy",
                         [NoArgs EXCEPT !.tx_hash = tx_hash, !.ctx = ctx, !.revision = revision],
                         db, st)
      /\ UNCHANGED <<revision, instances>>

\* A call of IconScoreDeployEngine._is_audit_needed; it writes nothing.
IsAuditNeeded ==
    /\ Idle
    /\ \E icon_score_address \in ContractAddresses \ {ZERO_SCORE_ADDRESS},
       origin \in EOAAddresses, audit \in BOOLEAN :
      /\ last' = [Observe("_is_audit_needed",
                          [NoArgs EXCEPT !.score_address = icon_score_address,
                                         !.origin = origin, !.revision = revision,
                                         !.ctx = [NoContext EXCEPT !.audit = audit]],
                          db, Start(db, origin, None))
                  EXCEPT !.ret = _is_audit_needed(db, revision, audit, origin,
                                                  icon_score_address)]
      /\ UNCHANGED <<db, revision, instances>>

Next ==
    \/ SetRevision
    \/ LoadBuiltinScores
    \/ PutDeployInfoAndTxParams
    \/ UpdateScoreInfo
    \/ Invoke
    \/ Deploy
    \/ TakeResult

Spec == Init /\ [][Next]_vars

\* ----------------------------------------------- the audit gate alone
\* _is_audit_needed is a function of the revision, the AUDIT flag, the
\* target, the originator and the owner recorded for the target: the
\* store is drawn with no record or with one record of either owner.
RecordOf(score_address, deploy_state, owner, next_tx_hash) ==
    DbPut(EmptyDb, DeployInfoKey(score_address),
          DeployInfo_to_bytes(IconScoreDeployInfo(score_address, deploy_state, owner,
                                                  ZERO_TX_HASH, next_tx_hash)))

AuditInit ==
    /\ db \in {EmptyDb} \cup
              {RecordOf(a, "ACTIVE", o, ZERO_TX_HASH) :
                   a \in ContractAddresses \ {ZERO_SCORE_ADDRESS}, o \in EOAAddresses}
    /\ revision \in 0..MaxRevision
    /\ last = NoCall
    /\ instances = NoInstances

AuditNext == IsAuditNeeded \/ TakeResult

AuditSpec == AuditInit /\ [][AuditNext]_vars

\* ===================================================== LinkedListDB
\* iconscore/icon_container_db.py.  The container works on a sub-database
\* of the store: its keys are the container's prefix and the encoded key.
\* Byte strings are modelled as strings: int_to_bytes(5) is "0x5", and the
\* bytes of a node are the tuple of its encoded fields.
MaxNodeId == 4
MaxArraySize == 3
ListValues == {7, 8}
EncodedInts == (0..(MaxNodeId + 1)) \cup (0..(MaxArraySize + 1)) \cup ListValues

LINKEDLIST_DB_ID == "0x03"
NODE_ID_BYTE_KEY == "node_id"
SIZE_ID_BYTE_KEY == "size_id"
HEAD_ID_BYTE_KEY == "head_node_id"
TAIL_ID_BYTE_KEY == "tail_node_id"
ListVarKey == "list"

OutOfRange == "ContainerDBException: LinkedListDB out of range"
InvalidNodeId == "ContainerDBException: Invalid id: can't use id"
NoneTypeError == "AttributeError: 'NoneType' object has no attribute"
StopIteration == "StopIteration"

int_to_bytes(i) == "0x" \o ToString(i)
int_from_bytes(buf) == CHOOSE i \in EncodedInts : int_to_bytes(i) = buf
encode_key(key) == int_to_bytes(key)
encode_value(value) == int_to_bytes(value)
get_default_value == 0
decode_object(d, key) == IF key \in DOMAIN d THEN int_from_bytes(d[key]) ELSE get_default_value
create_db_prefix(container_id, var_key) == container_id \o "|" \o var_key
ListPrefix == create_db_prefix(LINKEDLIST_DB_ID, ListVarKey)
get_sub_db_key(prefix, key) == <<prefix, key>>

\* LinkedListDB.Node; NoneNode stands for Python's None where a node is optional.
Node(node_prev, node_next, node_data, node_id) ==
    [is_none |-> FALSE, prev |-> node_prev, next |-> node_next, data |-> node_data,
     id |-> node_id]
NoneNode == [is_none |-> TRUE, prev |-> 0, next |-> 0, data |-> "", id |-> 0]
create_node(node_data) == Node(0, 0, node_data, 0)
Node_encode(node) == <<int_to_bytes(node.prev), int_to_bytes(node.next), node.data>>
Node_decode(data) == Node(int_from_bytes(data[1]), int_from_bytes(data[2]), data[3], 0)
convert_data(node) == int_from_bytes(node.data)

_get_variable(d, db_key) == decode_object(d, get_sub_db_key(ListPrefix, db_key))

_set_variable(st, db_key, value) ==
    IF ~Running(st) THEN st
    ELSE LET key == get_sub_db_key(ListPrefix, db_key)
         IN  Log([st EXCEPT !.db = DbPut(@, key, encode_value(value))],
                 <<"put", key[1], key[2]>>)

_set_node_to_db(st, node) ==
    IF ~Running(st) \/ node.is_none THEN st
    ELSE IF node.id = 0 THEN Raise(st, InvalidNodeId)
    ELSE LET key == get_sub_db_key(ListPrefix, encode_key(node.id))
         IN  Log([st EXCEPT !.db = DbPut(@, key, Node_encode(node))],
                 <<"put", key[1], key[2]>>)

\* A removal that leaves the node's key in the store.
_delete_node_kept(st, node_id) == st

_delete_node(st, node_id) ==
    IF ~Running(st) THEN st
    ELSE LET key == get_sub_db_key(ListPrefix, encode_key(node_id))
         IN  Log([st EXCEPT !.db = DbDelete(@, key)], <<"delete", key[1], key[2]>>)

_get_node_by_id(d, node_id) ==
    LET key == get_sub_db_key(ListPrefix, encode_key(node_id)) IN
    IF key \notin DOMAIN d THEN NoneNode
    ELSE [Node_decode(d[key]) EXCEPT !.id = node_id]

\* The nodes the generator yields, and the error that ends it early: a
\* missing node raises when its link is read, before it is yielded.
RECURSIVE GeneratorFrom(_, _, _, _)
GeneratorFrom(d, next_id, count, is_reverse) ==
    IF count = 0 THEN [nodes |-> <<>>, exc |-> None]
    ELSE LET node == _get_node_by_id(d, next_id) IN
         IF node.is_none THEN [nodes |-> <<>>, exc |-> NoneTypeError]
         ELSE CHOOSE gen \in
                  {[nodes |-> <<node>> \o rest.nodes, exc |-> rest.exc] :
                       rest \in {GeneratorFrom(d, IF is_reverse THEN node.prev
                                                  ELSE node.next,
                                               count - 1, is_reverse)}} : TRUE

\* A generator that follows the next links in both directions.
_get_generator_forward(d, start_id, size, is_reverse) == GeneratorFrom(d, start_id, size, FALSE)

_get_generator(d, start_id, size, is_reverse) == GeneratorFrom(d, start_id, size, is_reverse)

\* A generator is lazy: it keeps next_id and the number of nodes left, and
\* reads each node from the store when it is asked for it.  The nodes of a
\* generator that yielded `taken` nodes from the store d and is asked for the
\* rest when the store has become d2.
GeneratorAcross(d, d2, start_id, size, is_reverse, taken) ==
    LET first == GeneratorFrom(d, start_id, taken, is_reverse) IN
    IF taken = 0 THEN GeneratorFrom(d2, start_id, size, is_reverse)
    ELSE IF first.exc # None THEN first
    ELSE LET node == first.nodes[taken]
             rest == GeneratorFrom(d2, IF is_reverse THEN node.prev ELSE node.next,
                                   size - taken, is_reverse)
         IN  [nodes |-> first.nodes \o rest.nodes, exc |-> rest.exc]

\* The result of a lookup: the exception it raised, or the node (or None).
Found(node) == [exc |-> None, node |-> node]
NotFound(e) == [exc |-> e, node |-> NoneNode]

\* A walk from the tail that counts the links to follow one too many.
Walk_off_by_one(size, index) ==
    [is_reverse |-> index > size \div 2,
     index |-> IF index > size \div 2 THEN size - index ELSE index]

\* The end a lookup starts from and the number of links it follows from there.
Walk(size, index) ==
    [is_reverse |-> index > size \div 2,
     index |-> IF index > size \div 2 THEN size - index - 1 ELSE index]

_get_node_by_index(d, head_id, tail_id, size, index0) ==
    IF index0 >= size THEN NotFound(OutOfRange)
    ELSE IF size = 0 THEN Found(NoneNode)
    ELSE
      LET index1 == IF index0 < 0 THEN index0 + size ELSE index0
          walk == Walk(size, index1)
          start_id == IF walk.is_reverse THEN tail_id ELSE head_id
          steps == IF walk.index > 0 THEN walk.index ELSE 0
      IN  CHOOSE found \in
              {IF Len(gen.nodes) >= steps + 1 THEN Found(gen.nodes[steps + 1])
               ELSE NotFound(IF gen.exc # None THEN gen.exc ELSE StopIteration) :
                   gen \in {_get_generator(d, start_id, size, walk.is_reverse)}} : TRUE

\* A successful _add that leaves the id counter as it was.
AddCounters_stale(st, new_id, size) == _set_variable(st, SIZE_ID_BYTE_KEY, size + 1)

\* A successful _add that records the number of nodes as the last id.
AddCounters_by_size(st, new_id, size) ==
    _set_variable(_set_variable(st, NODE_ID_BYTE_KEY, size + 1), SIZE_ID_BYTE_KEY, size + 1)

\* Both counters written at the end of a successful _add.
AddCounters(st, new_id, size) ==
    _set_variable(_set_variable(st, NODE_ID_BYTE_KEY, new_id), SIZE_ID_BYTE_KEY, size + 1)

\* _add on an empty list.
AddToEmpty(st0, new_node) ==
    _set_variable(_set_variable(_set_node_to_db(st0, new_node),
                                HEAD_ID_BYTE_KEY, new_node.id),
                  TAIL_ID_BYTE_KEY, new_node.id)

\* An append whose new node does not point back at the old tail.
AddAppend_no_prev(st0, new_node, found) ==
    IF found.exc # None THEN Raise(st0, found.exc)
    ELSE IF found.node.is_none THEN Raise(st0, NoneTypeError)
    ELSE LET prev_node == [found.node EXCEPT !.next = new_node.id]
         IN  _set_variable(_set_node_to_db(_set_node_to_db(st0, prev_node), new_node),
                           TAIL_ID_BYTE_KEY, new_node.id)

\* _add at index == size: append after the node found at index - 1.
AddAppend(st0, new_node, found) ==
    IF found.exc # None THEN Raise(st0, found.exc)
    ELSE IF found.node.is_none THEN Raise(st0, NoneTypeError)
    ELSE LET prev_node == [found.node EXCEPT !.next = new_node.id]
             linked == [new_node EXCEPT !.prev = prev_node.id]
         IN  _set_variable(_set_node_to_db(_set_node_to_db(st0, prev_node), linked),
                           TAIL_ID_BYTE_KEY, linked.id)

\* An insert that never moves the head.
AddInsert_keep_head(st0, new_node, found) ==
    IF found.exc # None THEN Raise(st0, found.exc)
    ELSE IF found.node.is_none THEN Raise(st0, NoneTypeError)
    ELSE LET prev0 == _get_node_by_id(st0.db, found.node.prev)
             next_node == [found.node EXCEPT !.prev = new_node.id]
             prev_node == IF prev0.is_none THEN prev0
                          ELSE [prev0 EXCEPT !.next = new_node.id]
             linked == IF prev0.is_none THEN [new_node EXCEPT !.next = next_node.id]
                       ELSE [new_node EXCEPT !.next = next_node.id, !.prev = prev_node.id]
         IN  _set_node_to_db(_set_node_to_db(_set_node_to_db(st0, prev_node), next_node),
                             linked)

\* _add at index < size: insert before the node found at index.
AddInsert(st0, new_node, found) ==
    IF found.exc # None THEN Raise(st0, found.exc)
    ELSE IF found.node.is_none THEN Raise(st0, NoneTypeError)
    ELSE LET prev0 == _get_node_by_id(st0.db, found.node.prev)
             next_node == [found.node EXCEPT !.prev = new_node.id]
             prev_node == IF prev0.is_none THEN prev0
                          ELSE [prev0 EXCEPT !.next = new_node.id]
             linked == IF prev0.is_none THEN [new_node EXCEPT !.next = next_node.id]
                       ELSE [new_node EXCEPT !.next = next_node.id, !.prev = prev_node.id]
             st1 == IF prev0.is_none THEN _set_variable(st0, HEAD_ID_BYTE_KEY, linked.id)
                    ELSE st0
         IN  _set_node_to_db(_set_node_to_db(_set_node_to_db(st1, prev_node), next_node),
                             linked)

_add(st0, index0, node0) ==
    LET node_id == _get_variable(st0.db, NODE_ID_BYTE_KEY)
        new_node == [node0 EXCEPT !.id = node_id + 1]
        head_id == _get_variable(st0.db, HEAD_ID_BYTE_KEY)
        tail_id == _get_variable(st0.db, TAIL_ID_BYTE_KEY)
        size == _get_variable(st0.db, SIZE_ID_BYTE_KEY)
        index == IF index0 < 0 THEN index0 + size + 1 ELSE index0
        st1 == IF size = 0 THEN AddToEmpty(st0, new_node)
               ELSE IF index = size
               THEN AddAppend(st0, new_node,
                              _get_node_by_index(st0.db, head_id, tail_id, size, index - 1))
               ELSE AddInsert(st0, new_node,
                              _get_node_by_index(st0.db, head_id, tail_id, size, index))
    IN  IF index0 > size THEN Raise(st0, OutOfRange)
        ELSE AddCounters(st1, new_node.id, size)

add(st, index, value) == _add(st, index, create_node(encode_value(value)))

_remove(st0, index0) ==
    LET head_id == _get_variable(st0.db, HEAD_ID_BYTE_KEY)
        tail_id == _get_variable(st0.db, TAIL_ID_BYTE_KEY)
        size == _get_variable(st0.db, SIZE_ID_BYTE_KEY)
        index == IF index0 < 0 THEN index0 + size ELSE index0
    IN
    IF index0 >= size THEN Raise(st0, OutOfRange)
    ELSE IF size = 1
    THEN _set_variable(
             _set_variable(_set_variable(_delete_node(st0, head_id), HEAD_ID_BYTE_KEY, 0),
                           TAIL_ID_BYTE_KEY, 0),
             SIZE_ID_BYTE_KEY, size - 1)
    ELSE
      LET found == _get_node_by_index(st0.db, head_id, tail_id, size, index) IN
      IF found.exc # None THEN Raise(st0, found.exc)
      ELSE IF found.node.is_none THEN Raise(st0, NoneTypeError)
      ELSE
        LET remove_node == found.node
            prev0 == _get_node_by_id(st0.db, remove_node.prev)
            next0 == _get_node_by_id(st0.db, remove_node.next)
        IN
        IF index = size - 1
        THEN \* tail remove
             IF prev0.is_none THEN Raise(st0, NoneTypeError)
             ELSE LET prev_node == [prev0 EXCEPT !.next = 0] IN
                  _set_variable(
                      _set_variable(_delete_node(_set_node_to_db(st0, prev_node),
                                                 remove_node.id),
                                    TAIL_ID_BYTE_KEY, prev_node.id),
                      SIZE_ID_BYTE_KEY, size - 1)
        ELSE \* remove
             IF prev0.is_none /\ next0.is_none THEN Raise(st0, NoneTypeError)
             ELSE
               LET prev_node == IF prev0.is_none THEN prev0
                                ELSE [prev0 EXCEPT !.next = IF next0.is_none THEN 0
                                                            ELSE next0.id]
                   next_node == IF next0.is_none THEN next0
                                ELSE [next0 EXCEPT !.prev = IF prev0.is_none THEN 0
                                                            ELSE prev0.id]
                   st1 == IF ~prev0.is_none /\ ~next0.is_none THEN st0
                          ELSE IF prev0.is_none
                          THEN _set_variable(st0, HEAD_ID_BYTE_KEY, next_node.id)
                          ELSE _set_variable(st0, TAIL_ID_BYTE_KEY, prev_node.id)
               IN  _set_variable(
                       _delete_node(_set_node_to_db(_set_node_to_db(st1, prev_node),
                                                    next_node), remove_node.id),
                       SIZE_ID_BYTE_KEY, size - 1)

\* __iter__, reverse, __len__, __getitem__: the values read, or the exception.
ListRead(gen) ==
    CHOOSE read \in {[exc |-> g.exc,
                      values |-> [i \in 1..Len(g.nodes) |-> convert_data(g.nodes[i])]] :
                         g \in {gen}} : TRUE

iter(d) == ListRead(_get_generator(d, _get_variable(d, HEAD_ID_BYTE_KEY),
                                   _get_variable(d, SIZE_ID_BYTE_KEY), FALSE))

reverse(d) == ListRead(_get_generator(d, _get_variable(d, TAIL_ID_BYTE_KEY),
                                      _get_variable(d, SIZE_ID_BYTE_KEY), TRUE))

len(d) == _get_variable(d, SIZE_ID_BYTE_KEY)

getitem(d, index) ==
    LET found == _get_node_by_index(d, _get_variable(d, HEAD_ID_BYTE_KEY),
                                    _get_variable(d, TAIL_ID_BYTE_KEY),
                                    _get_variable(d, SIZE_ID_BYTE_KEY), index)
    IN  IF found.exc # None THEN [exc |-> found.exc, value |-> 0]
        ELSE IF found.node.is_none THEN [exc |-> NoneTypeError, value |-> 0]
        ELSE [exc |-> None, value |-> convert_data(found.node)]

\* ---- the list under its operations
ListCall(op, index, value, pre, st) ==
    [op |-> op, index |-> index, value |-> value, exc |-> st.exc, pre |-> pre,
     post |-> st.db, trace |-> st.trace]

ListInit ==
    /\ db = EmptyDb
    /\ revision = REVISION_2
    /\ last = NoCall
    /\ instances = NoInstances

ListAdd ==
    /\ Idle
    /\ _get_variable(db, NODE_ID_BYTE_KEY) < MaxNodeId
    /\ \E value \in ListValues :
       \E index \in (-(len(db) + 2))..(len(db) + 1) :
         LET st == add(Start(db, None, None), index, value) IN
         /\ db' = st.db
         /\ last' = ListCall("add", index, value, db, st)
         /\ UNCHANGED <<revision, instances>>

ListRemove ==
    /\ Idle
    /\ \E index \in (-(len(db) + 2))..(len(db) + 1) :
         LET st == _remove(Start(db, None, None), index) IN
         /\ db' = st.db
         /\ last' = ListCall("remove", index, 0, db, st)
         /\ UNCHANGED <<revision, instances>>

ListNext == ListAdd \/ ListRemove \/ TakeResult

ListSpec == ListInit /\ [][ListNext]_vars

\* ============================================================ ArrayDB
\* iconscore/icon_container_db.py.  An ArrayDB object keeps two fields outside
\* the store: the size it read when it was constructed and has kept up to
\* date with its own put and pop since, and the index of its iteration.
ARRAY_DB_ID == "0x00"
ARRAY_SIZE_BYTE_KEY == "size"
ArrayOutOfRange == "ContainerDBException: ArrayDB out of range"

\* An array that takes the discriminator of the dictionary.
ArrayPrefix_of_dict == create_db_prefix("0x01", ListVarKey)

ArrayPrefix == create_db_prefix(ARRAY_DB_ID, ListVarKey)
ArrayKey(key) == get_sub_db_key(ArrayPrefix, key)

\* __init__ with __get_size.
ArrayDB(d) == [size |-> decode_object(d, ArrayKey(ARRAY_SIZE_BYTE_KEY)), index |-> 0]

\* A call on an ArrayDB object: the call state with the object (self), the
\* value returned (<<>> for None) and the answer of a membership test.
ArrayStart(d, self) ==
    [db |-> d, exc |-> None, trace |-> <<>>, self |-> self, ret |-> <<>>, found |-> FALSE]

ArrayDbPut(st, key, value) ==
    Log([st EXCEPT !.db = DbPut(@, ArrayKey(key), value)], <<"put", ArrayPrefix, key>>)

ArrayDbDelete(st, key) ==
    Log([st EXCEPT !.db = DbDelete(@, ArrayKey(key))], <<"delete", ArrayPrefix, key>>)

ArrayDB_set_size(st) == ArrayDbPut(st, ARRAY_SIZE_BYTE_KEY, encode_value(st.self.size))

\* A lookup that takes a negative index as it is.
ArrayDB_getitem_no_wrap(st, index) ==
    IF index < 0 \/ index >= st.self.size THEN Raise(st, ArrayOutOfRange)
    ELSE [st EXCEPT !.ret = <<decode_object(st.db, ArrayKey(encode_key(index)))>>]

ArrayDB_getitem(st, index) ==
    LET size == st.self.size
        wrapped == IF index < 0 THEN index + size ELSE index
    IN  IF wrapped < 0 \/ wrapped >= size THEN Raise(st, ArrayOutOfRange)
        ELSE [st EXCEPT !.ret = <<decode_object(st.db, ArrayKey(encode_key(wrapped)))>>]

ArrayDB_setitem(st, index, value) ==
    IF index >= st.self.size THEN Raise(st, ArrayOutOfRange)
    ELSE ArrayDbPut(st, encode_key(index), encode_value(value))

\* An append that does not write the size slot.
ArrayDB_put_no_size(st, value) ==
    [ArrayDbPut(st, encode_key(st.self.size), encode_value(value)) EXCEPT !.self.size = @ + 1]

ArrayDB_put(st, value) ==
    ArrayDB_set_size([ArrayDbPut(st, encode_key(st.self.size), encode_value(value))
                          EXCEPT !.self.size = @ + 1])

\* A pop that leaves the element's key in the store.
ArrayDB_pop_kept(st) ==
    IF st.self.size = 0 THEN st
    ELSE ArrayDB_set_size([ArrayDB_getitem(st, st.self.size - 1) EXCEPT !.self.size = @ - 1])

ArrayDB_pop(st) ==
    IF st.self.size = 0 THEN st
    ELSE LET index == st.self.size - 1
             last_val == ArrayDB_getitem(st, index)
         IN  ArrayDB_set_size([ArrayDbDelete(last_val, encode_key(index))
                                   EXCEPT !.self.size = @ - 1])

ArrayDB_iter(st) == [st EXCEPT !.self.index = 0]

ArrayDB_next(st) ==
    IF st.self.index < st.self.size
    THEN ArrayDB_getitem([st EXCEPT !.self.index = @ + 1], st.self.index)
    ELSE Raise(st, StopIteration)

\* __contains__: `for e in self` restarts the object's own iteration.
RECURSIVE ArrayScan(_, _)
ArrayScan(st, item) ==
    LET e == ArrayDB_next(st) IN
    IF e.exc # None THEN [st EXCEPT !.found = FALSE]
    ELSE IF e.ret = <<item>> THEN [e EXCEPT !.found = TRUE, !.ret = <<>>]
    ELSE ArrayScan([e EXCEPT !.ret = <<>>], item)

ArrayDB_contains(st, item) == ArrayScan(ArrayDB_iter(st), item)

\* ---- the array under its operations, through one object or through two
ArrayCall(op, self, index, value, pre, st) ==
    [op |-> op, self |-> self, index |-> index, value |-> value, exc |-> st.exc,
     pre |-> pre, post |-> st.db, trace |-> st.trace, ret |-> st.ret,
     before |-> instances[self], after |-> st.self]

ArrayIndices(size) == (-(size + 2))..(size + 1)
ArraySetIndices(size) == (-1)..size

ArrayInit ==
    /\ db = EmptyDb
    /\ revision = REVISION_2
    /\ last = NoCall
    /\ instances = [self \in {"a"} |-> ArrayDB(db)]

ArrayPairInit ==
    /\ db = EmptyDb
    /\ revision = REVISION_2
    /\ last = NoCall
    /\ instances = [self \in {"a", "b"} |-> ArrayDB(db)]

ArrayReturn(op, self, index, value, st) ==
    /\ db' = st.db
    /\ instances' = [instances EXCEPT ![self] = st.self]
    /\ last' = ArrayCall(op, self, index, value, db, st)
    /\ UNCHANGED revision

ArrayPut ==
    /\ Idle
    /\ \E self \in DOMAIN instances, value \in ListValues :
         /\ instances[self].size < MaxArraySize
         /\ ArrayReturn("put", self, 0, value,
                        ArrayDB_put(ArrayStart(db, instances[self]), value))

ArrayPop ==
    /\ Idle
    /\ \E self \in DOMAIN instances :
         ArrayReturn("pop", self, 0, 0, ArrayDB_pop(ArrayStart(db, instances[self])))

ArrayGet ==
    /\ Idle
    /\ \E self \in DOMAIN instances :
       \E index \in ArrayIndices(instances[self].size) :
         ArrayReturn("get", self, index, 0,
                     ArrayDB_getitem(ArrayStart(db, instances[self]), index))

ArraySet ==
    /\ Idle
    /\ \E self \in DOMAIN instances, value \in ListValues :
       \E index \in ArraySetIndices(instances[self].size) :
         ArrayReturn("set", self, index, value,
                     ArrayDB_setitem(ArrayStart(db, instances[self]), index, value))

ArrayNext == ArrayPut \/ ArrayPop \/ ArrayGet \/ ArraySet \/ TakeResult

ArraySpec == ArrayInit /\ [][ArrayNext]_vars

ArrayPairSpec == ArrayPairInit /\ [][ArrayNext]_vars

\* One array object under append, pop and get alone.
ArrayAppendPopNext == ArrayPut \/ ArrayPop \/ ArrayGet \/ TakeResult

ArrayAppendPopSpec == ArrayInit /\ [][ArrayAppendPopNext]_vars

\* ============================================================= DictDB
\* A DictDB object keeps the sub-database of its prefix and its depth; both
\* are fixed at construction.  The sub-database of a sub-database has the
\* two prefixes joined by the separator.
DICT_DB_ID == "0x01"
DictDepthMismatch == "ContainerDBException: DictDB depth mismatch"
DictKeys == {0, 1}
DictDepths == {1, 2}

get_sub_db(parent, prefix) == IF parent = "" THEN prefix ELSE parent \o "|" \o prefix

DictDB(var_key, parent, depth) ==
    [prefix |-> get_sub_db(parent, create_db_prefix(DICT_DB_ID, var_key)), depth |-> depth]

\* An assignment that does not look at the depth.
DictDB_setitem_any_depth(st, self, key, value) ==
    LET db_key == get_sub_db_key(self.prefix, encode_key(key))
    IN  Log([st EXCEPT !.db = DbPut(@, db_key, encode_value(value))],
            <<"put", db_key[1], db_key[2]>>)

DictDB_setitem(st, self, key, value) ==
    IF self.depth # 1 THEN Raise(st, DictDepthMismatch)
    ELSE LET db_key == get_sub_db_key(self.prefix, encode_key(key))
         IN  Log([st EXCEPT !.db = DbPut(@, db_key, encode_value(value))],
                 <<"put", db_key[1], db_key[2]>>)

\* __getitem__: the decoded value at depth 1, a DictDB of one depth less
\* over the sub-database of the key otherwise.
DictDB_getitem(d, self, key) ==
    IF self.depth = 1
    THEN [nested |-> FALSE, view |-> self,
          value |-> decode_object(d, get_sub_db_key(self.prefix, encode_key(key)))]
    ELSE [nested |-> TRUE, view |-> DictDB(encode_key(key), self.prefix, self.depth - 1),
          value |-> 0]

\* remove, __delitem__ and __remove.
DictDB_remove(st, self, key) ==
    IF self.depth # 1 THEN Raise(st, DictDepthMismatch)
    ELSE LET db_key == get_sub_db_key(self.prefix, encode_key(key))
         IN  Log([st EXCEPT !.db = DbDelete(@, db_key)], <<"delete", db_key[1], db_key[2]>>)

\* dict[k1]..[kn]: the object the keys of path lead to, each through __getitem__.
RECURSIVE DictView(_, _, _)
DictView(d, self, path) ==
    IF path = <<>> THEN self
    ELSE DictView(d, DictDB_getitem(d, self, Head(path)).view, Tail(path))

\* The key sequences dict[k1]..[kn] of a dictionary of the given depth.
DictPaths(depth) == UNION {[1..n -> DictKeys] : n \in 1..depth}
Front(path) == SubSeq(path, 1, Len(path) - 1)

DictCall(op, depth, path, value, pre, st) ==
    [op |-> op, depth |-> depth, path |-> path, value |-> value, exc |-> st.exc,
     pre |-> pre, post |-> st.db, trace |-> st.trace]

DictInit ==
    /\ db = EmptyDb
    /\ revision = REVISION_2
    /\ last = NoCall
    /\ instances = NoInstances

\* dict[k1]..[kn] = value on a DictDB of the given depth.
DictSet ==
    /\ Idle
    /\ \E depth \in DictDepths, value \in ListValues :
       \E path \in DictPaths(depth) :
         LET view == DictView(db, DictDB(ListVarKey, "", depth), Front(path))
             st == DictDB_setitem(Start(db, None, None), view, path[Len(path)], value)
         IN  /\ db' = st.db
             /\ last' = DictCall("set", depth, path, value, db, st)
             /\ UNCHANGED <<revision, instances>>

\* del dict[k1]..[kn], or dict[k1]..remove(kn).
DictRemove ==
    /\ Idle
    /\ \E depth \in DictDepths :
       \E path \in DictPaths(depth) :
         LET view == DictView(db, DictDB(ListVarKey, "", depth), Front(path))
             st == DictDB_remove(Start(db, None, None), view, path[Len(path)])
         IN  /\ db' = st.db
             /\ last' = DictCall("remove", depth, path, 0, db, st)
             /\ UNCHANGED <<revision, instances>>

DictNext == DictSet \/ DictRemove \/ TakeResult

DictSpec == DictInit /\ [][DictNext]_vars

\* ============================================================== VarDB
\* A VarDB keeps its value under its own name in the sub-database of
\* VAR_DB_ID.  Its value has one of five types; a Python value is modelled as
\* its type and its text, and None as PyNone.
VAR_DB_ID == "0x02"
PyNone == <<"NoneType", "None">>

PyValues(value_type) ==
    CASE value_type = "int" -> {<<"int", "0">>, <<"int", "7">>}
      [] value_type = "str" -> {<<"str", "a">>, <<"str", "b">>}
      [] value_type = "bool" -> {<<"bool", "False">>, <<"bool", "True">>}
      [] value_type = "Address" -> {<<"Address", "hxa1">>, <<"Address", "cx02">>}
      [] value_type = "bytes" -> {<<"bytes", "b'x'">>, <<"bytes", "b'y'">>}

\* The declared slots: the name and the value type of each.
VarSlots ==
    {<<ListVarKey, "int">>, <<"name", "str">>, <<"flag", "bool">>,
     <<"owner", "Address">>, <<"raw", "bytes">>}

\* __encode_value: a bool is an int for isinstance, so it takes the first
\* branch; int_to_bytes of a number is "0x" and its digits.
encode_value_of(value) ==
    CASE value[1] = "int" -> "0x" \o value[2]
      [] value[1] = "bool" -> IF value[2] = "True" THEN "0x1" ELSE "0x0"
      [] value[1] = "str" -> "b'" \o value[2] \o "'"
      [] value[1] = "Address" -> "addr:" \o value[2]
      [] value[1] = "bytes" -> value[2]

\* A default that is the integer 0 for every type.
get_default_value_zero(value_type) == <<"int", "0">>

get_default_value_of(value_type) ==
    IF value_type = "int" THEN <<"int", "0">>
    ELSE IF value_type = "str" THEN <<"str", "">>
    ELSE IF value_type = "bool" THEN <<"bool", "False">>
    ELSE PyNone

\* int.from_bytes, bytes.decode and Address.from_bytes: the value of the
\* type that encodes to the bytes.
from_bytes(buf, value_type) ==
    CHOOSE value \in PyValues(value_type) : encode_value_of(value) = buf

\* decode_object on what the store holds under the key: the default for a
\* missing key, then the first chain of tests (int, str, Address) and the
\* second one (bool, bytes).
decode_object_of(d, key, value_type) ==
    IF key \notin DOMAIN d THEN get_default_value_of(value_type)
    ELSE LET obj_value == IF value_type \in {"int", "str", "Address"}
                          THEN from_bytes(d[key], value_type)
                          ELSE PyNone
         IN  IF value_type = "bool" THEN from_bytes(d[key], "bool")
             ELSE IF value_type = "bytes" THEN <<"bytes", d[key]>>
             ELSE obj_value

VarDB(var_key, value_type) ==
    [var_byte_key |-> get_sub_db_key(VAR_DB_ID, var_key), value_type |-> value_type]

VarDB_set(st, self, value) ==
    Log([st EXCEPT !.db = DbPut(@, self.var_byte_key, encode_value_of(value))],
        <<"put", self.var_byte_key[1], self.var_byte_key[2]>>)

VarDB_get(d, self) == decode_object_of(d, self.var_byte_key, self.value_type)

VarDB_remove(st, self) ==
    Log([st EXCEPT !.db = DbDelete(@, self.var_byte_key)],
        <<"delete", self.var_byte_key[1], self.var_byte_key[2]>>)

VarCall(op, slot, value, pre, st) ==
    [op |-> op, slot |-> slot, value |-> value, exc |-> st.exc, pre |-> pre,
     post |-> st.db, trace |-> st.trace]

VarInit ==
    /\ db = EmptyDb
    /\ revision = REVISION_2
    /\ last = NoCall
    /\ instances = NoInstances

VarSet ==
    /\ Idle
    /\ \E slot \in VarSlots :
       \E value \in PyValues(slot[2]) :
         LET st == VarDB_set(Start(db, None, None), VarDB(slot[1], slot[2]), value) IN
         /\ db' = st.db
         /\ last' = VarCall("set", slot, value, db, st)
         /\ UNCHANGED <<revision, instances>>

VarRemove ==
    /\ Idle
    /\ \E slot \in VarSlots :
         LET st == VarDB_remove(Start(db, None, None), VarDB(slot[1], slot[2])) IN
         /\ db' = st.db
         /\ last' = VarCall("remove", slot, PyNone, db, st)
         /\ UNCHANGED <<revision, instances>>

VarNext == VarSet \/ VarRemove \/ TakeResult

VarSpec == VarInit /\ [][VarNext]_vars

\* ================================= four containers under the same name
\* A contract that declares an ArrayDB, a DictDB, a VarDB and a LinkedListDB
\* under the one name ListVarKey and uses them in any order.
KindsMaxSize == 1
Kinds == {"array", "map", "var", "list"}
KindsKeys == {0}
KindsSlot == <<ListVarKey, "int">>

KindsCall(kind, op, pre, st) ==
    [op |-> op, kind |-> kind, exc |-> st.exc, pre |-> pre, post |-> st.db,
     trace |-> st.trace]

KindsInit ==
    /\ db = EmptyDb
    /\ revision = REVISION_2
    /\ last = NoCall
    /\ instances = [self \in {"a"} |-> ArrayDB(db)]

KindsReturn(kind, op, st) ==
    /\ db' = st.db
    /\ last' = KindsCall(kind, op, db, st)
    /\ UNCHANGED revision

KindsList ==
    /\ Idle
    /\ \E index \in 0..len(db), value \in ListValues :
         \/ /\ _get_variable(db, NODE_ID_BYTE_KEY) < KindsMaxSize
            /\ KindsReturn("list", "add", add(Start(db, None, None), index, value))
         \/ KindsReturn("list", "remove", _remove(Start(db, None, None), index))
    /\ UNCHANGED instances

KindsArray ==
    /\ Idle
    /\ \E index \in 0..instances["a"].size, value \in ListValues :
       \E st \in {ArrayDB_setitem(ArrayStart(db, instances["a"]), index, value),
                  ArrayDB_pop(ArrayStart(db, instances["a"]))}
                 \cup {ArrayDB_put(ArrayStart(db, instances["a"]), v) :
                           v \in IF instances["a"].size < KindsMaxSize THEN {value}
                                 ELSE {}} :
         /\ KindsReturn("array", "put, pop or set", st)
         /\ instances' = [instances EXCEPT !["a"] = st.self]

KindsMap ==
    /\ Idle
    /\ \E depth \in DictDepths, value \in ListValues :
       \E path \in [1..depth -> KindsKeys] :
         LET view == DictView(db, DictDB(ListVarKey, "", depth), Front(path)) IN
         \/ KindsReturn("map", "set",
                        DictDB_setitem(Start(db, None, None), view, path[depth], value))
         \/ KindsReturn("map", "remove",
                        DictDB_remove(Start(db, None, None), view, path[depth]))
    /\ UNCHANGED instances

KindsVar ==
    /\ Idle
    /\ \E value \in PyValues(KindsSlot[2]) :
         LET self == VarDB(KindsSlot[1], KindsSlot[2]) IN
         \/ KindsReturn("var", "set", VarDB_set(Start(db, None, None), self, value))
         \/ KindsReturn("var", "remove", VarDB_remove(Start(db, None, None), self))
    /\ UNCHANGED instances

KindsNext == KindsList \/ KindsArray \/ KindsMap \/ KindsVar \/ TakeResult

KindsSpec == KindsInit /\ [][KindsNext]_vars

\* ================================================= the record codec alone
\* A value is built by its constructor from the arguments given, encoded by
\* to_bytes and decoded by from_bytes.  The arguments are drawn from the
\* values the deploy storage passes: a hash is 32 bytes or None (the storage
\* passes None for the hashes a record does not have).
DeployStates == {"INACTIVE", "ACTIVE"}
CodecHashes == TxHashes \cup {ZERO_TX_HASH}
CodecInputs ==
    {[kind |-> "IconScoreDeployInfo", x |-> IconScoreDeployInfo(a, s, o, c, n)] :
         a \in ContractAddresses \ {ZERO_SCORE_ADDRESS}, s \in DeployStates,
         o \in EOAAddresses, c \in CodecHashes \cup {None}, n \in CodecHashes \cup {None}}
    \cup
    {[kind |-> "IconScoreDeployTXParams", x |-> IconScoreDeployTXParams(h, t, a, d)] :
         h \in CodecHashes, t \in DeployTypes,
         a \in ContractAddresses \ {ZERO_SCORE_ADDRESS}, d \in DeployDatas}

\* The call in progress: the value, the exception raised (None while none
\* is), the bytes once encoded and the value once decoded (<<>> before).
CodecCall(stage, kind, x, exc, buf, y) ==
    [op |-> "codec", stage |-> stage, kind |-> kind, x |-> x, exc |-> exc, buf |-> buf, y |-> y]

CodecInit ==
    /\ db = EmptyDb
    /\ revision = REVISION_2 - 1
    /\ instances = NoInstances
    /\ \E i \in CodecInputs : last = CodecCall("given", i.kind, i.x, None, <<>>, <<>>)

\* IconScoreDeployInfo(...).to_bytes() and IconScoreDeployTXParams(...).to_bytes().
CodecEncode ==
    /\ last.op = "codec" /\ last.stage = "given"
    /\ \E debug \in PythonDebug :
         LET x == last.x IN
         last' = IF last.kind = "IconScoreDeployTXParams"
                 THEN [last EXCEPT !.stage = "encoded", !.buf = TxParams_to_bytes(x)]
                 ELSE IF ~IconScoreDeployInfoAsserts(debug, x.current_tx_hash, x.next_tx_hash)
                 THEN [last EXCEPT !.stage = "encoded", !.exc = AssertionError]
                 ELSE IF ~DeployInfoPackable(x)
                 THEN [last EXCEPT !.stage = "encoded", !.exc = StructError]
                 ELSE [last EXCEPT !.stage = "encoded", !.buf = DeployInfo_to_bytes(x)]
    /\ UNCHANGED <<db, revision, instances>>

\* IconScoreDeployInfo.from_bytes(buf) and IconScoreDeployTXParams.from_bytes(buf).
CodecDecode ==
    /\ last.op = "codec" /\ last.stage = "encoded" /\ last.exc = None
    /\ last' = [last EXCEPT !.stage = "decoded",
                            !.y = IF last.kind = "IconScoreDeployTXParams"
                                  THEN TxParams_from_bytes(last.buf)
                                  ELSE DeployInfo_from_bytes(last.buf)]
    /\ UNCHANGED <<db, revision, instances>>

CodecNext == CodecEncode \/ CodecDecode

CodecSpec == CodecInit /\ [][CodecNext]_vars

\* ======================================================== the claims
StoredTxParams(d, tx_hash) == TxParamsKey(tx_hash) \in DOMAIN d
HasEvent(trace, name) == \E i \in 1..Len(trace) : trace[i][1] = name
Target == last.args.score_address
Wrote == HasEvent(last.trace, "put") \/ HasEvent(last.trace, "delete")

\* The last call was put_deploy_info_and_tx_params, called directly or by a
\* deployment transaction that passed the checks before it.
PutCalled ==
    \/ last.op = "put_deploy_info_and_tx_params"
    \/ last.op = "invoke" /\ HasEvent(last.trace, "put_deploy_info_and_tx_params")

\* ... on an address that had a record, by someone who is not its owner.
PutByOtherOwner ==
    /\ PutCalled
    /\ HasDeployInfo(last.pre, Target)
    /\ get_deploy_info(last.pre, Target).owner # last.args.origin

OwnerKept ==
    /\ HasDeployInfo(last.post, Target)
    /\ get_deploy_info(last.post, Target).owner = get_deploy_info(last.pre, Target).owner
    /\ HasDeployInfo(db, Target)
    /\ get_deploy_info(db, Target).owner = get_deploy_info(last.pre, Target).owner

\* C1 as stated: once a record exists for an address, every later
\* put_deploy_info_and_tx_params for it that supplies a different owner fails
\* with OwnerMismatch and the stored owner is unchanged.
C1_AsStated == PutByOtherOwner => (last.exc = OwnerMismatch /\ OwnerKept)

\* C1 amended: such a call always fails and leaves the stored owner unchanged;
\* it fails with OwnerMismatch when no DeployTxParams is stored under its
\* tx_hash, and with DuplicateTxParams (checked first) when one is.
C1_OwnerMismatch ==
    PutByOtherOwner =>
        /\ last.exc = IF StoredTxParams(last.pre, last.args.tx_hash)
                      THEN DuplicateTxParams ELSE OwnerMismatch
        /\ OwnerKept

C1_Witness ==
    /\ PutByOtherOwner
    /\ last.op = "put_deploy_info_and_tx_params"
    /\ last.exc = OwnerMismatch
    /\ OwnerKept

\* C2: an update transaction that reaches the composite write and comes from
\* an owner other than the record's fails with OwnerMismatch, and nothing it
\* wrote persists: no DeployTxParams is stored under its tx_hash and the
\* store, the record included, is what it was before.
UpdateByOtherOwner ==
    /\ last.op = "invoke"
    /\ last.args.deploy_type = "UPDATE"
    /\ PutByOtherOwner

C2_UpdateByOtherOwnerRejected ==
    UpdateByOtherOwner =>
        /\ last.exc = OwnerMismatch
        /\ ~StoredTxParams(db, last.args.tx_hash)
        /\ db = last.pre
        /\ db[DeployInfoKey(Target)] = last.pre[DeployInfoKey(Target)]

\* The transaction had written its DeployTxParams when the owner check raised.
C2_Witness ==
    /\ UpdateByOtherOwner
    /\ last.exc = OwnerMismatch
    /\ StoredTxParams(last.post, last.args.tx_hash)
    /\ ~StoredTxParams(db, last.args.tx_hash)

\* C3: an activate that meets its preconditions (a record exists, the
\* tx_hash given is its next_tx_hash, the DeployTxParams of that hash is
\* stored) succeeds and leaves the record, in one write, with
\* current_tx_hash = the previous next_tx_hash, next_tx_hash = the sentinel
\* and deploy_state ACTIVE, owner and score_address unchanged.
ActivateCalled == last.op = "update_score_info"

ActivatePreconditions ==
    /\ ActivateCalled
    /\ HasDeployInfo(last.pre, Target)
    /\ last.args.tx_hash = get_deploy_info(last.pre, Target).next_tx_hash
    /\ StoredTxParams(last.pre, last.args.tx_hash)

Activated(before, after) ==
    /\ after.current_tx_hash = before.next_tx_hash
    /\ after.next_tx_hash = ZERO_TX_HASH
    /\ after.deploy_state = "ACTIVE"
    /\ after.owner = before.owner
    /\ after.score_address = before.score_address

C3_ActivateSucceeds ==
    ActivatePreconditions =>
        /\ last.exc = None
        /\ Len(last.trace) = 1
        /\ Activated(get_deploy_info(last.pre, Target), get_deploy_info(last.post, Target))
        /\ db = last.post

\* C4: activate with a tx_hash that is given and differs from the record's
\* next_tx_hash fails with TxHashMismatch, and activate on an address with no
\* record fails with RecordNotFound (deploy_info is None); both write
\* nothing: every DeployRecord and every DeployTxParams is as before.
ActivateWrongHash ==
    /\ ActivateCalled
    /\ HasDeployInfo(last.pre, Target)
    /\ last.args.tx_hash # None
    /\ last.args.tx_hash # get_deploy_info(last.pre, Target).next_tx_hash

ActivateNoRecord == ActivateCalled /\ ~HasDeployInfo(last.pre, Target)

NothingWritten == ~Wrote /\ last.post = last.pre /\ db = last.pre

C4_ActivateRejected ==
    /\ ActivateWrongHash => (last.exc = TxHashMismatch /\ NothingWritten)
    /\ ActivateNoRecord => (last.exc = DeployInfoIsNone /\ NothingWritten)

C4_Witness ==
    /\ ActivateWrongHash
    /\ get_deploy_info(last.pre, Target).next_tx_hash \in TxHashes
    /\ last.exc = TxHashMismatch
    /\ NothingWritten

\* C5: an activate whose hash check passes while no DeployTxParams is stored
\* for the hash being activated fails with RecordNotFound (tx_params is None)
\* and the record keeps its deploy_state, current_tx_hash and next_tx_hash.
ActivateWithoutTxParams ==
    /\ ActivateCalled
    /\ HasDeployInfo(last.pre, Target)
    /\ last.args.tx_hash \in {None, get_deploy_info(last.pre, Target).next_tx_hash}
    /\ ~StoredTxParams(last.pre, get_deploy_info(last.pre, Target).next_tx_hash)

C5_ActivateWithoutTxParams ==
    ActivateWithoutTxParams =>
        /\ last.exc = TxParamsIsNone
        /\ get_deploy_info(db, Target) = get_deploy_info(last.pre, Target)

\* C6: put_deploy_info_and_tx_params for a tx_hash under which a
\* DeployTxParams is stored fails with DuplicateTxParams; the stored
\* DeployTxParams and every DeployRecord are unchanged.
PutDuplicate == PutCalled /\ StoredTxParams(last.pre, last.args.tx_hash)

C6_DuplicateRejected ==
    PutDuplicate =>
        /\ last.exc = DuplicateTxParams
        /\ last.post[TxParamsKey(last.args.tx_hash)] = last.pre[TxParamsKey(last.args.tx_hash)]
        /\ NothingWritten

\* The second write differs from the stored entry in its deploy_data.
C6_Witness ==
    /\ PutDuplicate
    /\ get_deploy_tx_params(last.pre, last.args.tx_hash).deploy_data # last.args.data
    /\ HasDeployInfo(last.pre, Target)
    /\ last.exc = DuplicateTxParams
    /\ get_deploy_tx_params(db, last.args.tx_hash).deploy_data # last.args.data

\* C7 as stated: when put_deploy_info_and_tx_params succeeds on an address
\* whose record has a pending next_tx_hash, the DeployTxParams of the
\* superseded hash is no longer stored and next_tx_hash is the new tx_hash,
\* so each address has at most one stored DeployTxParams that was never
\* activated; at every chain revision.
PutOnPending ==
    /\ PutCalled
    /\ last.exc = None
    /\ HasDeployInfo(last.pre, Target)
    /\ get_deploy_info(last.pre, Target).next_tx_hash \in TxHashes

SupersededGone ==
    /\ ~StoredTxParams(last.post, get_deploy_info(last.pre, Target).next_tx_hash)
    /\ get_deploy_info(last.post, Target).next_tx_hash = last.args.tx_hash
    /\ db = last.post

\* The stored DeployTxParams of an address that are not its current one.
Pending(d, score_address) ==
    {h \in TxHashes :
        /\ StoredTxParams(d, h)
        /\ get_deploy_tx_params(d, h).score_address = score_address
        /\ HasDeployInfo(d, score_address) =>
               get_deploy_info(d, score_address).current_tx_hash # h}

AtMostOnePending(d) == \A a \in ContractAddresses : Cardinality(Pending(d, a)) <= 1

C7_AsStated ==
    /\ PutOnPending => SupersededGone
    /\ AtMostOnePending(db)

\* C7 amended: this holds at chain revision >= REVISION_2: there the
\* superseded entry is gone after a successful put on a pending record, and
\* every call on a store with at most one pending DeployTxParams per address
\* leaves a store with at most one.  (Below REVISION_2 the bare hash is
\* deleted instead, and the superseded entry stays stored.)
C7_SupersededDeleted ==
    last.args.revision >= REVISION_2 =>
        /\ PutOnPending => SupersededGone
        /\ AtMostOnePending(last.pre) => AtMostOnePending(db)

C7_Witness ==
    /\ PutOnPending
    /\ last.args.revision >= REVISION_2
    /\ StoredTxParams(last.pre, get_deploy_info(last.pre, Target).next_tx_hash)
    /\ SupersededGone
    /\ Pending(db, Target) = {last.args.tx_hash}

\* C8: a do_deploy(tx_hash) in which materialization or the hook fails does
\* not call activate and leaves the record as it was; a do_deploy(tx_hash) of
\* the pending deployment whose materialization and hook succeed activates
\* it.
DeployCalled == last.op = "deploy" /\ StoredTxParams(last.pre, last.args.tx_hash)
DeployTarget == get_deploy_tx_params(last.pre, last.args.tx_hash).score_address

DeployStepFailed ==
    /\ DeployCalled
    /\ last.exc \in {MaterializeError, PackageValidateError, ScoreLoadFailure, HookError}

DeployOfPending ==
    /\ DeployCalled
    /\ HasDeployInfo(last.pre, DeployTarget)
    /\ get_deploy_info(last.pre, DeployTarget).next_tx_hash = last.args.tx_hash
    /\ get_deploy_tx_params(last.pre, last.args.tx_hash).deploy_data.contentType
           = "application/zip"
    /\ last.args.ctx.fail = "none"

C8_FailedDeployIsRetryable ==
    /\ DeployStepFailed =>
           /\ ~HasEvent(last.trace, "update_score_info")
           /\ last.post = last.pre
           /\ db = last.pre
    /\ DeployOfPending =>
           /\ last.exc = None
           /\ Activated(get_deploy_info(last.pre, DeployTarget),
                        get_deploy_info(db, DeployTarget))

\* C9: audit is skipped exactly when the AUDIT flag is off, or when the
\* revision is at least REVISION_2, the target is a builtin address and the
\* originator is the owner recorded for the target; otherwise it is needed.
AuditSkipped ==
    \/ ~last.args.ctx.audit
    \/ /\ last.args.revision >= REVISION_2
       /\ Target \in BUILTIN_SCORE_ADDRESS_MAPPER
       /\ HasDeployInfo(last.pre, Target)
       /\ get_deploy_info(last.pre, Target).owner = last.args.origin

C9_AuditGate == last.op = "_is_audit_needed" => (last.ret = ~AuditSkipped)

\* Audit is on and is skipped for the owner of a builtin SCORE.
C9_Witness ==
    /\ last.op = "_is_audit_needed"
    /\ last.args.ctx.audit
    /\ AuditSkipped
    /\ last.ret = FALSE

\* C10: a deployment transaction that passes the checks while audit is
\* required ends at RECORDED: its DeployTxParams is stored, the record's
\* next_tx_hash is its tx_hash, nothing is materialized, no hook runs,
\* activate is not called, and deploy_state and current_tx_hash are as
\* before (INACTIVE and no current hash for a new address).
AuditedDeployTx ==
    /\ last.op = "invoke"
    /\ is_contract(Target) /\ Target # ZERO_SCORE_ADDRESS
    /\ last.args.ctx.fail \notin {"blacklist", "deployer"}
    /\ HasDeployInfo(last.pre, Target) =>
           get_deploy_info(last.pre, Target).owner = last.args.origin
    /\ last.args.ctx.audit
    /\ ~(last.args.revision >= REVISION_2 /\ Target \in BUILTIN_SCORE_ADDRESS_MAPPER)

Recorded ==
    /\ last.exc = None
    /\ StoredTxParams(db, last.args.tx_hash)
    /\ HasDeployInfo(db, Target)
    /\ get_deploy_info(db, Target).next_tx_hash = last.args.tx_hash
    /\ ~HasEvent(last.trace, "materialize")
    /\ ~HasEvent(last.trace, "on_install") /\ ~HasEvent(last.trace, "on_update")
    /\ ~HasEvent(last.trace, "update_score_info")
    /\ get_deploy_info(db, Target).deploy_state =
           IF HasDeployInfo(last.pre, Target)
           THEN get_deploy_info(last.pre, Target).deploy_state ELSE "INACTIVE"
    /\ get_deploy_info(db, Target).current_tx_hash =
           IF HasDeployInfo(last.pre, Target)
           THEN get_deploy_info(last.pre, Target).current_tx_hash ELSE ZERO_TX_HASH

C10_EndsRecorded == AuditedDeployTx => Recorded

\* C11: an install transaction (to = zero address) with valid zipped content
\* for a new address, when audit is not required, ends with the record
\* ACTIVE, owner = origin, current_tx_hash = the transaction's hash and
\* next_tx_hash = sentinel, and the install hook has run exactly once.
EventCount(trace, name) == Cardinality({i \in 1..Len(trace) : trace[i][1] = name})

AuditNotRequired ==
    \/ ~last.args.ctx.audit
    \/ last.args.revision >= REVISION_2 /\ Target \in BUILTIN_SCORE_ADDRESS_MAPPER

InstallOfNewAddress ==
    /\ last.op = "invoke"
    /\ last.args.to = ZERO_SCORE_ADDRESS
    /\ is_contract(Target) /\ Target # ZERO_SCORE_ADDRESS
    /\ ~HasDeployInfo(last.pre, Target)
    /\ last.args.data = ZipData
    /\ last.args.ctx.fail = "none"
    /\ AuditNotRequired

C11_InstallActivates ==
    InstallOfNewAddress =>
        /\ last.exc = None
        /\ HasDeployInfo(db, Target)
        /\ get_deploy_info(db, Target) =
               IconScoreDeployInfo(Target, "ACTIVE", last.args.origin,
                                   last.args.tx_hash, ZERO_TX_HASH)
        /\ EventCount(last.trace, "on_install") = 1

\* C12: a deployment request whose target is the zero address or not a
\* contract address, whose target is deny-listed, or whose originator is not
\* allow-listed is rejected before any write: no DeployTxParams and no record
\* is created or changed and nothing is materialized.
InvalidTarget == ~is_contract(Target) \/ Target = ZERO_SCORE_ADDRESS

RejectedRequest ==
    /\ last.op = "invoke"
    /\ InvalidTarget \/ last.args.ctx.fail \in {"blacklist", "deployer"}

RejectedBeforeAnyWrite ==
    /\ last.exc # None
    /\ NothingWritten
    /\ ~HasEvent(last.trace, "materialize")

C12_RejectedBeforeAnyWrite == RejectedRequest => RejectedBeforeAnyWrite

\* C13 as stated: a deployment whose content type is not a recognized one is
\* rejected with InvalidContentType before any write, on every path that
\* reaches the check: when the error is raised, the transaction has created
\* or changed no DeployTxParams and no record.
UnrecognizedContentType(data, ctx) ==
    \/ data.contentType \notin {"application/zip", "application/tbears"}
    \/ data.contentType = "application/tbears" /\ ~ctx.legacy_tbears_mode

DeployOfUnrecognized ==
    /\ DeployCalled
    /\ UnrecognizedContentType(get_deploy_tx_params(last.pre, last.args.tx_hash).deploy_data,
                               last.args.ctx)

\* A deployment transaction that wrote its record and goes on to deploy.
TxReachesDeploy ==
    /\ last.op = "invoke"
    /\ \E i \in 1..Len(last.trace) :
           last.trace[i] = <<"put", _DEPLOY_STORAGE_DEPLOY_INFO_PREFIX, Target>>
    /\ AuditNotRequired

TxOfUnrecognized ==
    /\ TxReachesDeploy
    /\ UnrecognizedContentType(last.args.data, last.args.ctx)

C13_AsStated ==
    DeployOfUnrecognized \/ TxOfUnrecognized =>
        /\ last.exc = InvalidContentType
        /\ ~Wrote
        /\ last.post = last.pre

\* C13 amended: do_deploy rejects it before any write.  A deployment
\* transaction processed without audit has stored its DeployTxParams and set
\* the record's next_tx_hash when the check raises InvalidContentType; these
\* writes are gone only once the failed transaction is discarded.
C13_InvalidContentType ==
    /\ DeployOfUnrecognized => (last.exc = InvalidContentType /\ NothingWritten)
    /\ TxOfUnrecognized =>
           /\ last.exc = InvalidContentType
           /\ StoredTxParams(last.post, last.args.tx_hash)
           /\ get_deploy_info(last.post, Target).next_tx_hash = last.args.tx_hash
           /\ ~HasEvent(last.trace, "materialize")
           /\ db = last.pre

C13_Witness ==
    /\ TxOfUnrecognized
    /\ last.exc = InvalidContentType
    /\ last.post # last.pre
    /\ db = last.pre

\* C14: during the hook the context's sender is the contract's owner and its
\* transaction is cleared; after the hook step, whether it succeeded or
\* raised, the sender and the transaction are the values they had before it.
HookEvents == {i \in 1..Len(last.trace) : last.trace[i][1] \in {"on_install", "on_update"}}

\* msg and tx of the context when the call began.
MsgBefore == IF last.op = "invoke" THEN last.args.origin ELSE GOVERNANCE_SCORE_ADDRESS
TxBefore == IF last.op = "invoke" THEN last.args.tx_hash ELSE None

HookTarget == IF last.op = "invoke" THEN Target ELSE DeployTarget

C14_ContextRestored ==
    last.op \in {"invoke", "deploy"} =>
        /\ \A i \in HookEvents :
               /\ last.trace[i][2] = get_deploy_info(last.post, HookTarget).owner
               /\ last.trace[i][3] = None
        /\ last.msg = MsgBefore
        /\ last.tx = TxBefore

\* The hook of a deployment transaction raised after the transaction of the
\* context had been cleared.
C14_Witness ==
    /\ last.op = "invoke"
    /\ last.exc = HookError
    /\ \E i \in HookEvents : last.trace[i][3] = None
    /\ last.msg = last.args.origin /\ last.tx = last.args.tx_hash

\* C15: builtin bootstrap is idempotent: after one successful run every
\* builtin address has a record with state ACTIVE, sentinel current and next
\* hashes and the designated owner; a second run skips every builtin that is
\* already ACTIVE, invokes no install hook and changes no record.
BootstrapCalled == last.op = "load_builtin_scores"

ActiveRecord(d, a) == HasDeployInfo(d, a) /\ get_deploy_info(d, a).deploy_state = "ACTIVE"

FirstRun == BootstrapCalled /\ last.exc = None /\ \A a \in BUILTIN_SCORE_ADDRESS_MAPPER : ~HasDeployInfo(last.pre, a)

LaterRun == BootstrapCalled /\ \A a \in BUILTIN_SCORE_ADDRESS_MAPPER : ActiveRecord(last.pre, a)

C15_BootstrapIdempotent ==
    /\ FirstRun =>
           \A a \in BUILTIN_SCORE_ADDRESS_MAPPER :
               /\ HasDeployInfo(db, a)
               /\ get_deploy_info(db, a) =
                      IconScoreDeployInfo(a, "ACTIVE", last.args.origin,
                                          ZERO_TX_HASH, ZERO_TX_HASH)
    /\ LaterRun =>
           /\ last.exc = None
           /\ ~HasEvent(last.trace, "on_install")
           /\ NothingWritten

\* A second run with another designated owner and a hook that would fail.
C15_Witness ==
    /\ LaterRun
    /\ last.args.ctx.fail = "hook"
    /\ \E a \in BUILTIN_SCORE_ADDRESS_MAPPER :
           get_deploy_info(last.pre, a).owner # last.args.origin
    /\ NothingWritten

\* C16: the owner of a record is immutable once set: whatever call runs
\* (deployment transaction, storage put, activation, deploy, bootstrap), an
\* address that had a record still has one with the same owner, both when
\* the call ends and after its transaction.
OwnersKept(before, after) ==
    \A a \in ContractAddresses \cup EOAAddresses :
        HasDeployInfo(before, a) =>
            /\ HasDeployInfo(after, a)
            /\ get_deploy_info(after, a).owner = get_deploy_info(before, a).owner

C16_OwnerImmutable == OwnersKept(last.pre, last.post) /\ OwnersKept(last.pre, db)

\* The owner's own deployment transaction rewrote the record.
C16_Witness ==
    /\ PutCalled
    /\ HasDeployInfo(last.pre, Target)
    /\ HasDeployInfo(db, Target)
    /\ db[DeployInfoKey(Target)] # last.pre[DeployInfoKey(Target)]
    /\ get_deploy_info(db, Target).owner = get_deploy_info(last.pre, Target).owner

\* ---- LinkedListDB against an ordinary list
InsertAt(seq, index, value) ==
    SubSeq(seq, 1, index) \o <<value>> \o SubSeq(seq, index + 1, Len(seq))
RemoveAt(seq, index) == SubSeq(seq, 1, index) \o SubSeq(seq, index + 2, Len(seq))
Reversed(seq) == [i \in 1..Len(seq) |-> seq[Len(seq) + 1 - i]]

ListOf(d) == iter(d).values

\* The list d reads as the ordinary list seq: forwards, backwards, in length.
ReadsAs(d, seq) ==
    /\ iter(d) = [exc |-> None, values |-> seq]
    /\ reverse(d) = [exc |-> None, values |-> Reversed(seq)]
    /\ len(d) = Len(seq)

AddInRange == last.op = "add" /\ last.index >= 0 /\ last.index <= len(last.pre)
RemoveInRange == last.op = "remove" /\ last.index >= 0 /\ last.index < len(last.pre)

\* C17: after any sequence of successful insert_at and remove_at operations
\* with indices in range, forward iteration yields the sequence an ordinary
\* list yields under the same operations, reverse iteration yields it
\* reversed, and the length is its length.  Stated as the step of the
\* induction: the new list reads as the empty sequence, and each operation
\* turns a list that reads as L into one that reads as the ordinary
\* operation applied to L.
C17_RefinesList ==
    /\ db = EmptyDb => ReadsAs(db, <<>>)
    /\ ReadsAs(db, ListOf(db))
    /\ AddInRange =>
           /\ last.exc = None
           /\ ReadsAs(last.post, InsertAt(ListOf(last.pre), last.index, last.value))
    /\ RemoveInRange =>
           /\ last.exc = None
           /\ ReadsAs(last.post, RemoveAt(ListOf(last.pre), last.index))

\* A removal from the middle of a list of three values that are not all equal.
C17_Witness ==
    /\ RemoveInRange
    /\ len(last.pre) = 3 /\ last.index = 1
    /\ ListOf(last.pre)[1] # ListOf(last.pre)[3]
    /\ ReadsAs(last.post, <<ListOf(last.pre)[1], ListOf(last.pre)[3]>>)

\* C18: on a non-empty list insert_at(0, x) makes get(0) return x, changes
\* head_id to the new node's id and leaves tail_id unchanged; an append
\* (index == size) on a non-empty list changes tail_id and leaves head_id
\* unchanged.
head_id(d) == _get_variable(d, HEAD_ID_BYTE_KEY)
tail_id(d) == _get_variable(d, TAIL_ID_BYTE_KEY)
next_id(d) == _get_variable(d, NODE_ID_BYTE_KEY)

InsertAtHead == last.op = "add" /\ len(last.pre) > 0 /\ last.index = 0
AppendAtTail == last.op = "add" /\ len(last.pre) > 0 /\ last.index = len(last.pre)

C18_HeadAndTail ==
    /\ InsertAtHead =>
           /\ getitem(last.post, 0) = [exc |-> None, value |-> last.value]
           /\ head_id(last.post) # head_id(last.pre)
           /\ head_id(last.post) = next_id(last.post)
           /\ tail_id(last.post) = tail_id(last.pre)
    /\ AppendAtTail =>
           /\ tail_id(last.post) # tail_id(last.pre)
           /\ tail_id(last.post) = next_id(last.post)
           /\ head_id(last.post) = head_id(last.pre)

\* An insert at the head of a list whose first value is another one.
C18_Witness ==
    /\ InsertAtHead
    /\ getitem(last.pre, 0).value # last.value
    /\ getitem(last.post, 0).value = last.value
    /\ len(last.pre) >= 2

\* C19: insert_at(index, v) with index > size fails with IndexOutOfRange and
\* leaves size, head_id, tail_id, next_id and every node unchanged; every
\* successful insert increases size by one and sets next_id to the new
\* node's id.
NodeKey(node_id) == get_sub_db_key(ListPrefix, encode_key(node_id))

C19_InsertOutOfRange ==
    /\ last.op = "add" /\ last.index > len(last.pre) =>
           /\ last.exc = OutOfRange
           /\ last.post = last.pre
           /\ last.trace = <<>>
    /\ last.op = "add" /\ last.exc = None =>
           /\ len(last.post) = len(last.pre) + 1
           /\ next_id(last.post) = next_id(last.pre) + 1
           /\ NodeKey(next_id(last.post)) \in DOMAIN last.post
           /\ NodeKey(next_id(last.post)) \notin DOMAIN last.pre

\* An insert past the end of a list that has nodes.
C19_Witness ==
    /\ last.op = "add"
    /\ len(last.pre) = 2 /\ last.index = 3
    /\ last.exc = OutOfRange
    /\ last.post = last.pre

\* C20: remove_at(index) with index >= size (any non-negative index on an
\* empty list) fails with IndexOutOfRange and leaves all counters and nodes
\* unchanged; every successful remove_at deletes the removed node's key and
\* decreases size by one.
NodeKeys(d) == {k \in DOMAIN d : k \in {NodeKey(i) : i \in 1..(MaxNodeId + 1)}}

C20_RemoveOutOfRange ==
    /\ last.op = "remove" /\ last.index >= len(last.pre) =>
           /\ last.exc = OutOfRange
           /\ last.post = last.pre
           /\ last.trace = <<>>
    /\ last.op = "remove" /\ last.exc = None =>
           /\ len(last.post) = len(last.pre) - 1
           /\ NodeKeys(last.post) \subseteq NodeKeys(last.pre)
           /\ Cardinality(NodeKeys(last.pre) \ NodeKeys(last.post)) = 1
           /\ last.index >= 0 =>
                  \E i \in 1..MaxNodeId :
                      /\ NodeKeys(last.pre) \ NodeKeys(last.post) = {NodeKey(i)}
                      /\ convert_data(_get_node_by_id(last.pre, i)) =
                             ListOf(last.pre)[last.index + 1]

\* A removal on an empty list that once had nodes, and it fails.
C20_Witness ==
    /\ last.op = "remove"
    /\ len(last.pre) = 0 /\ last.index = 0
    /\ next_id(last.pre) > 0
    /\ last.exc = OutOfRange
    /\ last.post = last.pre

\* C21: for every list reachable by inserts and removes and every index with
\* 0 <= index < size, get(index) returns the element forward iteration yields
\* at position index.  The lookup walks backward from tail_id for
\* size - index - 1 links when index > size // 2 and forward from head_id for
\* index links otherwise, so it never follows more than size // 2 links.  The
\* lists looked at are the reachable ones and each of them with one more
\* value appended; every reachable list is the store of a state between
\* two calls.
Appended(d) ==
    {d} \cup {add(Start(d, None, None), len(d), value).db : value \in ListValues}

C21_GetByShortestWalk ==
    Idle =>
    \A d \in Appended(db) :
    \A forward \in {iter(d)}, backward \in {reverse(d)}, size \in {len(d)} :
    \A index \in 0..(size - 1) :
    \A got \in {getitem(d, index)}, walk \in {Walk(size, index)} :
        /\ forward.exc = None /\ Len(forward.values) = size
        /\ got = [exc |-> None, value |-> forward.values[index + 1]]
        /\ walk.is_reverse = (index > size \div 2)
        /\ walk.is_reverse =>
               /\ walk.index = size - index - 1
               /\ got.value = backward.values[walk.index + 1]
        /\ ~walk.is_reverse =>
               /\ walk.index = index
               /\ got.value = forward.values[walk.index + 1]
        /\ walk.index <= size \div 2

\* A list of five values read at index 3: one link backward from the tail,
\* to a value that differs from its two neighbours.
C21_Witness ==
    /\ Idle
    /\ len(db) = 4
    /\ \E d \in Appended(db) :
           /\ len(d) = 5
           /\ Walk(len(d), 3) = [is_reverse |-> TRUE, index |-> 1]
           /\ getitem(d, 3) = [exc |-> None, value |-> ListOf(d)[4]]
           /\ ListOf(d)[4] # ListOf(d)[3]
           /\ ListOf(d)[4] # ListOf(d)[5]

\* C22: a forward or reverse iteration yields the list as it was when the
\* iteration started, not a live view: if insert_at or remove_at is applied
\* between two steps of the iteration, the iteration still yields exactly
\* the elements and order of the list at its start and ends without error.
\* The iteration starts on last.pre, takes `taken` values, the operation of
\* the last call is applied, and the iteration is run to its end.
IterationAcross(is_reverse, taken) ==
    ListRead(GeneratorAcross(last.pre, last.post,
                             IF is_reverse THEN tail_id(last.pre) ELSE head_id(last.pre),
                             len(last.pre), is_reverse, taken))

C22_AsStated ==
    last.op \in {"add", "remove"} /\ last.exc = None =>
        \A taken \in 1..(len(last.pre) - 1) :
            /\ IterationAcross(FALSE, taken) = iter(last.pre)
            /\ IterationAcross(TRUE, taken) = reverse(last.pre)

\* ---- ArrayDB
ArraySizeKey == ArrayKey(ARRAY_SIZE_BYTE_KEY)
ArrayElementKeys(d) == {k \in DOMAIN d : k[1] = ArrayPrefix /\ k # ArraySizeKey}
ArraySizeSlot(d) == decode_object(d, ArraySizeKey)

\* The same element keys with the same values and the same size slot value.
SameArray(d1, d2) ==
    /\ ArrayElementKeys(d1) = ArrayElementKeys(d2)
    /\ \A k \in ArrayElementKeys(d1) : d1[k] = d2[k]
    /\ ArraySizeSlot(d1) = ArraySizeSlot(d2)

\* C23: for every array state and value v, append(v) followed by pop()
\* returns v and restores the prior size and the prior stored contents: the
\* same element keys with the same values and the same size slot value.  On
\* an array never written before, the size slot is absent before (it reads
\* as 0) and holds 0 afterwards; every other key of the store is as before.
C23_AppendThenPop ==
    \A self \in DOMAIN instances, v \in ListValues :
        LET appended == ArrayDB_put(ArrayStart(db, instances[self]), v)
            popped == ArrayDB_pop(ArrayStart(appended.db, appended.self))
        IN  /\ appended.exc = None /\ popped.exc = None
            /\ appended.self.size = instances[self].size + 1
            /\ popped.ret = <<v>>
            /\ popped.self.size = instances[self].size
            /\ SameArray(popped.db, db)
            /\ DOMAIN popped.db \ {ArraySizeKey} = DOMAIN db \ {ArraySizeKey}
            /\ \A k \in DOMAIN db \ {ArraySizeKey} : popped.db[k] = db[k]
            /\ ArraySizeKey \in DOMAIN db => popped.db = db

\* A pop that returns the value the put before it appended to an array of
\* two elements, and leaves the store as it was before that put.
C23_Witness ==
    /\ last.op = "pop" /\ last.exc = None
    /\ last.after.size = 2
    /\ \E v \in ListValues :
           /\ last.ret = <<v>>
           /\ ArrayDB_put(ArrayStart(last.post, last.after), v).db = last.pre
           /\ decode_object(last.post, ArrayKey(encode_key(1))) # v

\* C24: get(i) normalizes a negative i once by adding size and fails with
\* IndexOutOfRange whenever the normalized index is below 0 or at least
\* size; so on a non-empty array get(-1) equals get(size-1), get(size) and
\* get(-size-1) fail, and a failing get changes nothing.
ArrayGetOf(self, index) == ArrayDB_getitem(ArrayStart(db, instances[self]), index)
ArrayElement(d, index) == decode_object(d, ArrayKey(encode_key(index)))

C24_GetIndex ==
    /\ \A self \in DOMAIN instances :
         LET size == instances[self].size IN
         /\ \A i \in ArrayIndices(size) :
                LET wrapped == IF i < 0 THEN i + size ELSE i
                    got == ArrayGetOf(self, i)
                IN  /\ wrapped < 0 \/ wrapped >= size =>
                           /\ got.exc = ArrayOutOfRange
                           /\ got.db = db /\ got.self = instances[self] /\ got.trace = <<>>
                    /\ wrapped >= 0 /\ wrapped < size =>
                           /\ got.exc = None
                           /\ got.ret = <<ArrayElement(db, wrapped)>>
                           /\ got.db = db
         /\ size > 0 =>
                /\ ArrayGetOf(self, -1).exc = None
                /\ ArrayGetOf(self, -1).ret = ArrayGetOf(self, size - 1).ret
         /\ ArrayGetOf(self, size).exc = ArrayOutOfRange
         /\ ArrayGetOf(self, -size - 1).exc = ArrayOutOfRange
    /\ last.op = "get" /\ last.exc # None =>
           /\ last.exc = ArrayOutOfRange
           /\ last.post = last.pre /\ last.trace = <<>> /\ last.after = last.before
           /\ db = last.pre /\ instances[last.self] = last.before

\* get(-1) on an array of two different elements returns the second one.
C24_Witness ==
    /\ last.op = "get" /\ last.index = -1 /\ last.exc = None
    /\ last.before.size = 2
    /\ last.ret = <<ArrayElement(last.pre, 1)>>
    /\ ArrayElement(last.pre, 1) # ArrayElement(last.pre, 0)
    /\ last.post = last.pre

\* C25: set(i, v) treats a negative i as counting from the end (i += size
\* once) and fails with IndexOutOfRange when the normalized index is below 0
\* or at least size; a successful set(i, v) makes get(i) return v, changes
\* only the element at the normalized index and never writes a key outside
\* the indices 0..size-1.
C25_AsStated ==
    last.op = "set" =>
        LET size == last.before.size
            wrapped == IF last.index < 0 THEN last.index + size ELSE last.index
        IN  /\ wrapped < 0 \/ wrapped >= size =>
                   /\ last.exc = ArrayOutOfRange
                   /\ last.post = last.pre
            /\ wrapped >= 0 /\ wrapped < size =>
                   /\ last.exc = None
                   /\ ArrayDB_getitem(ArrayStart(last.post, last.after), last.index).ret
                          = <<last.value>>
                   /\ DOMAIN last.post = DOMAIN last.pre
                   /\ \A k \in DOMAIN last.pre \ {ArrayKey(encode_key(wrapped))} :
                          last.post[k] = last.pre[k]
            /\ \A i \in 1..Len(last.trace) :
                   last.trace[i][3] \in {encode_key(n) : n \in 0..(size - 1)}

\* C26: every iteration started on an array yields the elements at indices
\* 0..size-1 in order, each exactly once, and then ends; it is restartable,
\* and this also holds for an iteration during which a membership test or a
\* second iteration is started on the same container.
\* ForLoop is what `for e in array: body` yields when the body of the pass
\* numbered `at` runs `item in array` (at = 0: no pass does); a test for a
\* value the array does not hold is a second iteration run to its end.
RECURSIVE ForPasses(_, _, _, _)
ForPasses(st, item, at, pass) ==
    LET e == ArrayDB_next(st) IN
    IF e.exc # None THEN <<>>
    ELSE LET body == IF pass = at THEN ArrayDB_contains(e, item) ELSE e
         IN  e.ret \o ForPasses([body EXCEPT !.ret = <<>>], item, at, pass + 1)

ForLoop(self, item, at) ==
    ForPasses(ArrayDB_iter(ArrayStart(db, self)), item, at, 1)

ArrayElements(d, size) == [i \in 1..size |-> ArrayElement(d, i - 1)]

C26_AsStated ==
    \A self \in DOMAIN instances :
        LET this == instances[self]
            finished == [this EXCEPT !.index = this.size]
        IN  /\ ForLoop(this, 0, 0) = ArrayElements(db, this.size)
            /\ ForLoop(finished, 0, 0) = ArrayElements(db, this.size)
            /\ \A item \in ListValues \cup {0}, at \in 1..this.size :
                   ForLoop(this, item, at) = ArrayElements(db, this.size)

\* C27: container objects hold no durable state of their own: for two array
\* objects built over the same namespace, after any sequence of operations
\* performed through either of them, both report the same length and the
\* same elements, equal to what a freshly constructed object reads from the
\* store.
C27_AsStated ==
    \A self \in DOMAIN instances :
        LET this == instances[self]
            fresh == ArrayDB(db)
        IN  /\ this.size = fresh.size
            /\ ForLoop(this, 0, 0) = ForLoop(fresh, 0, 0)

\* ---- DictDB
\* C28: on a dictionary of depth N > 1, assigning or removing through an
\* intermediate level (a view whose remaining depth is not 1) fails with
\* ContainerTypeMismatch and writes nothing, while get at an intermediate
\* level returns a nested view of depth one less; at depth 1, set(k, v)
\* followed by get(k) returns v.
RemainingDepth == last.depth - Len(last.path) + 1

C28_DepthMismatch ==
    /\ last.op \in {"set", "remove"} /\ RemainingDepth # 1 =>
           /\ last.exc = DictDepthMismatch
           /\ last.post = last.pre
           /\ last.trace = <<>>
    /\ last.op = "set" /\ RemainingDepth = 1 =>
           LET view == DictView(last.post, DictDB(ListVarKey, "", last.depth),
                                Front(last.path))
               got == DictDB_getitem(last.post, view, last.path[Len(last.path)])
           IN  /\ last.exc = None
               /\ view.depth = 1
               /\ got = [nested |-> FALSE, view |-> view, value |-> last.value]
    /\ \A depth \in DictDepths \ {1}, key \in DictKeys :
           LET self == DictDB(ListVarKey, "", depth)
               got == DictDB_getitem(db, self, key)
           IN  /\ got.nested
               /\ got.view.depth = depth - 1
               /\ got.view.prefix # self.prefix

\* An assignment through the first level of a dictionary of depth 2 that
\* holds values: it is refused and the store stays as it was.
C28_Witness ==
    /\ last.op = "set" /\ last.depth = 2 /\ Len(last.path) = 1
    /\ last.exc = DictDepthMismatch
    /\ last.pre # EmptyDb
    /\ last.post = last.pre

\* ---- VarDB
\* C29: a VarSlot read returns the type-appropriate default (0 for integer,
\* empty string for text, false for boolean, absent for address and raw
\* bytes) while no value is stored, returns the most recently set value
\* after any sequence of set operations, and returns the default again
\* after remove; set and remove touch only that slot's single key.
\* Stated as the step of the induction: a read is the default while the
\* slot's key is missing, a set makes the read the value set, a remove makes
\* the key missing, and neither changes another key.
DefaultOf(value_type) ==
    CASE value_type = "int" -> <<"int", "0">>
      [] value_type = "str" -> <<"str", "">>
      [] value_type = "bool" -> <<"bool", "False">>
      [] value_type \in {"Address", "bytes"} -> PyNone

SlotKey(slot) == <<VAR_DB_ID, slot[1]>>
SlotRead(d, slot) == VarDB_get(d, VarDB(slot[1], slot[2]))

OnlySlotTouched ==
    /\ \A k \in DOMAIN last.pre \ {SlotKey(last.slot)} :
           k \in DOMAIN last.post /\ last.post[k] = last.pre[k]
    /\ DOMAIN last.post \ {SlotKey(last.slot)} \subseteq DOMAIN last.pre
    /\ \A i \in 1..Len(last.trace) :
           <<last.trace[i][2], last.trace[i][3]>> = SlotKey(last.slot)
    /\ \A slot \in VarSlots \ {last.slot} :
           SlotRead(last.post, slot) = SlotRead(last.pre, slot)

C29_VarSlot ==
    /\ \A slot \in VarSlots :
           SlotKey(slot) \notin DOMAIN db => SlotRead(db, slot) = DefaultOf(slot[2])
    /\ last.op = "set" =>
           /\ last.exc = None
           /\ SlotRead(last.post, last.slot) = last.value
           /\ OnlySlotTouched
    /\ last.op = "remove" =>
           /\ last.exc = None
           /\ SlotKey(last.slot) \notin DOMAIN last.post
           /\ SlotRead(last.post, last.slot) = DefaultOf(last.slot[2])
           /\ OnlySlotTouched

\* The removal of an address that had replaced another one, while the other
\* slots hold values: the slot reads as absent again.
C29_Witness ==
    /\ last.op = "remove" /\ last.slot[2] = "Address"
    /\ SlotRead(last.pre, last.slot) = <<"Address", "cx02">>
    /\ SlotRead(last.post, last.slot) = PyNone
    /\ \A slot \in VarSlots \ {last.slot} :
           /\ SlotKey(slot) \in DOMAIN last.post
           /\ SlotRead(last.post, slot) # DefaultOf(slot[2])

\* ---- containers of different kinds under the same name
\* C30: two containers of different kinds (array, map, var, linked list)
\* declared under the same contract with the same name never read, write or
\* delete the same key of the underlying store, for any sequence of
\* operations on either.  The keys of a kind are those of its sub-databases;
\* FlatKey is the key as the store sees it, the prefix and the key joined by
\* the separator.  No key is shared: the sub-databases of two kinds differ,
\* an operation puts and deletes only in those of its kind, it leaves every
\* other key as it was, and what the other kinds read is what they read
\* before it.
KindPrefixes ==
    [kind \in Kinds |->
        CASE kind = "array" -> {ArrayPrefix}
          [] kind = "list" -> {ListPrefix}
          [] kind = "var" -> {VarDB(KindsSlot[1], KindsSlot[2]).var_byte_key[1]}
          [] kind = "map" ->
                 {DictView(EmptyDb, DictDB(ListVarKey, "", depth), path).prefix :
                      depth \in DictDepths, path \in {<<>>} \cup DictPaths(1)}]

FlatKey(k) == get_sub_db(k[1], k[2])
KindKeys(kind, d) == {k \in DOMAIN d : k[1] \in KindPrefixes[kind]}

KindReads(kind, d) ==
    CASE kind = "array" -> <<ArrayDB(d).size, ArrayElements(d, ArrayDB(d).size)>>
      [] kind = "list" -> <<iter(d), reverse(d), len(d)>>
      [] kind = "var" -> <<SlotRead(d, KindsSlot)>>
      [] kind = "map" ->
             <<[key \in KindsKeys |->
                   DictDB_getitem(d, DictDB(ListVarKey, "", 1), key).value],
               [key \in KindsKeys |->
                   DictDB_getitem(d, DictView(d, DictDB(ListVarKey, "", 2), <<key>>),
                                  key).value]>>

C30_KindsDisjoint ==
    /\ \A kind \in Kinds : \A other \in Kinds \ {kind} :
           /\ KindPrefixes[kind] \cap KindPrefixes[other] = {}
           /\ {FlatKey(k) : k \in KindKeys(kind, db)}
                  \cap {FlatKey(k) : k \in KindKeys(other, db)} = {}
    /\ \A k \in DOMAIN db : \E kind \in Kinds : k \in KindKeys(kind, db)
    /\ last.op # "none" =>
           /\ \A i \in 1..Len(last.trace) : last.trace[i][2] \in KindPrefixes[last.kind]
           /\ \A other \in Kinds \ {last.kind} :
                  /\ KindKeys(other, last.post) = KindKeys(other, last.pre)
                  /\ \A k \in KindKeys(other, last.pre) : last.post[k] = last.pre[k]
                  /\ KindReads(other, last.post) = KindReads(other, last.pre)

\* An array put while the dictionary, the variable and the list of the same
\* name hold values: they read as before.
C30_Witness ==
    /\ last.op # "none" /\ last.kind = "array" /\ last.exc = None
    /\ KindKeys("array", last.post) # KindKeys("array", last.pre)
    /\ \A other \in Kinds \ {"array"} :
           /\ Cardinality(KindKeys(other, last.pre)) >= 1
           /\ KindReads(other, last.post) = KindReads(other, last.pre)
    /\ len(last.pre) = 1
    /\ SlotRead(last.pre, KindsSlot) = <<"int", "7">>

\* ----------------------------------------------------------------- C31
\* A record whose hashes are all 32 bytes, and every DeployTxParams, encodes
\* without failure and decodes to itself field by field.
RoundTripOfBytesHashes ==
    last.op = "codec" /\ (last.kind = "IconScoreDeployInfo" => DeployInfoPackable(last.x))
        => /\ last.stage # "given" => last.exc = None
           /\ last.stage = "decoded" => last.y = last.x

\* C31 as stated: for every valid DeployRecord, the one with no current and
\* no pending hash included, and every valid DeployTxParams, encoding never
\* fails and decode(encode(x)) equals x field by field.
C31_AsStated ==
    last.op = "codec"
        => /\ last.stage # "given" => last.exc = None
           /\ last.stage = "decoded" => last.y = last.x

\* ----------------------------------------------------------------- C32
ReservedPrefixes == {_DEPLOY_STORAGE_DEPLOY_INFO_PREFIX, _DEPLOY_STORAGE_DEPLOY_TX_PARAMS_PREFIX}

\* The puts and deletes a call issued to the store, as <<prefix, key>>.
Accesses(trace) == {<<trace[i][2], trace[i][3]>> : i \in {j \in 1..Len(trace) : trace[j][1] \in {"put", "delete"}}}

\* The store with a value under every bare address and hash in addition.
Foreign(d) ==
    LET bare == {_create_db_key("", k) : k \in ContractAddresses \cup TxHashes \cup {ZERO_TX_HASH}}
    IN  [k \in DOMAIN d \cup bare |->
           IF k \in DOMAIN d THEN d[k]
           ELSE <<_VERSION, 1, GOVERNANCE_SCORE_ADDRESS, "hxa1", ZERO_TX_HASH, ZERO_TX_HASH>>]

\* Every read of the storage is a read under a reserved prefix: what is
\* stored under other keys changes no result.
ReadsReserved(d) ==
    \A f \in {Foreign(d)} :
    /\ \A a \in ContractAddresses :
         /\ HasDeployInfo(f, a) = HasDeployInfo(d, a)
         /\ HasDeployInfo(d, a) => get_deploy_info(f, a) = get_deploy_info(d, a)
         /\ is_score_active(f, a) = is_score_active(d, a)
         /\ get_score_owner(f, a) = get_score_owner(d, a)
    /\ \A h \in TxHashes \cup {ZERO_TX_HASH} :
         /\ HasDeployTxParams(f, h) = HasDeployTxParams(d, h)
         /\ HasDeployTxParams(d, h) => get_deploy_tx_params(f, h) = get_deploy_tx_params(d, h)

\* The delete below REVISION_2: the bare pending hash of the record.
LegacyDelete ==
    /\ PutCalled
    /\ last.args.revision < REVISION_2
    /\ HasDeployInfo(last.pre, Target)

\* C32 as stated: every read, write and delete of the deploy storage uses a
\* key under isds|di| or isds|dtp|, at any chain revision.
C32_AsStated ==
    /\ \A k \in Accesses(last.trace) : k[1] \in ReservedPrefixes
    /\ Idle => ReadsReserved(db)

\* C32 amended: every read and every write uses a key under isds|di| or
\* isds|dtp|, and so does every delete at chain revision >= REVISION_2; below
\* REVISION_2 the only access outside the two prefixes is the delete that
\* put_deploy_info_and_tx_params issues for the superseded pending hash of an
\* existing record, whose key is the bare hash.  The reads are looked at in
\* the store between two calls: every store a call reads is one.
C32_ReservedPrefixes ==
    /\ \A k \in Accesses(last.trace) :
         \/ k[1] \in ReservedPrefixes
         \/ /\ LegacyDelete
            /\ k = _create_db_key("", get_deploy_info(last.pre, Target).next_tx_hash)
            /\ <<"delete", k[1], k[2]>> \in {last.trace[i] : i \in 1..Len(last.trace)}
            /\ <<"put", k[1], k[2]>> \notin {last.trace[i] : i \in 1..Len(last.trace)}
    /\ Idle => ReadsReserved(db)

\* A put on a pending record at revision >= REVISION_2: it writes the
\* DeployTxParams and the record and deletes the superseded entry, all under
\* the reserved prefixes.
C32_Witness ==
    /\ PutOnPending
    /\ last.args.revision >= REVISION_2
    /\ Accesses(last.trace) =
           {TxParamsKey(last.args.tx_hash), DeployInfoKey(Target),
            TxParamsKey(get_deploy_info(last.pre, Target).next_tx_hash)}
    /\ \A k \in Accesses(last.trace) : k[1] \in ReservedPrefixes

\* ----------------------------------------------------------------- C33
\* C33: node ids are never reused.  next_id never decreases; a remove and a
\* failed insert leave it unchanged; a successful insert stores its node
\* under next_id + 1 and makes that the new next_id; id 0 is never the id of
\* a stored node.  Every stored node has an id in 1..next_id, and next_id only
\* grows, so every id that ever was a node's id is at most next_id and the
\* id of a new node differs from all of them.
C33_IdsNeverReused ==
    /\ NodeKey(0) \notin DOMAIN db
    /\ Idle => NodeKeys(db) \subseteq {NodeKey(i) : i \in 1..next_id(db)}
    /\ last.op \in {"add", "remove"} =>
           /\ next_id(last.post) >= next_id(last.pre)
           /\ last.op = "remove" \/ last.exc # None =>
                  next_id(last.post) = next_id(last.pre)
           /\ last.op = "add" /\ last.exc = None =>
                  /\ next_id(last.post) = next_id(last.pre) + 1
                  /\ \A created \in {DOMAIN last.post \ DOMAIN last.pre} :
                         /\ NodeKey(next_id(last.pre) + 1) \in created
                         /\ \A i \in 0..next_id(last.pre) : NodeKey(i) \notin created
                         /\ \A i \in (next_id(last.pre) + 2)..(MaxNodeId + 1) :
                                NodeKey(i) \notin created

\* An insert into a list that has lost two of its three nodes: the new node
\* gets id 4, not one of the free ids.
C33_Witness ==
    /\ last.op = "add" /\ last.exc = None
    /\ next_id(last.pre) = 3 /\ len(last.pre) = 1
    /\ next_id(last.post) = 4
    /\ NodeKey(4) \in DOMAIN last.post
    /\ Cardinality(NodeKeys(last.post)) = 2

\* ----------------------------------------------------------------- C34
\* A do_deploy that reached activate has run exactly one hook, the one of the
\* stored deploy_type, and has run it before activate; a do_deploy without
\* stored DeployTxParams fails at once.
HookOnceBeforeActivate ==
    /\ DeployCalled /\ HasEvent(last.trace, "update_score_info") =>
           /\ Cardinality(HookEvents) = 1
           /\ \A i \in HookEvents :
                  /\ last.trace[i][1] =
                         HookOf(get_deploy_tx_params(last.pre, last.args.tx_hash).deploy_type)
                  /\ \A j \in 1..Len(last.trace) :
                         last.trace[j][1] = "update_score_info" => i < j
    /\ last.op = "deploy" /\ ~StoredTxParams(last.pre, last.args.tx_hash) =>
           /\ last.exc = DeployTxParamsNotFound
           /\ last.trace = <<>>
           /\ last.post = last.pre /\ db = last.pre

StoredIds(d) == {i \in 1..(MaxNodeId + 1) : NodeKey(i) \in DOMAIN d}

\* The stored list is well formed.
WellFormed(d) ==
    LET size == len(d)
        head == head_id(d)
        tail == tail_id(d)
        walk == GeneratorFrom(d, head, size, FALSE)
    IN  /\ size >= 0
        /\ (size = 0) <=> (head = 0 /\ tail = 0)
        /\ (size = 0) <=> (head = 0 \/ tail = 0)
        /\ size > 0 =>
               /\ head \in StoredIds(d) /\ _get_node_by_id(d, head).prev = 0
               /\ tail \in StoredIds(d) /\ _get_node_by_id(d, tail).next = 0
               /\ walk.exc = None
               /\ Len(walk.nodes) = size
               /\ walk.nodes[size].id = tail
        /\ \A n \in StoredIds(d) :
               LET node == _get_node_by_id(d, n) IN
               /\ node.next # 0 =>
                      /\ node.next \in StoredIds(d)
                      /\ _get_node_by_id(d, node.next).prev = n
               /\ node.prev # 0 =>
                      /\ node.prev \in StoredIds(d)
                      /\ _get_node_by_id(d, node.prev).next = n
        /\ NodeKey(0) \notin DOMAIN d
        /\ Cardinality(StoredIds(d)) = size

\* C35: after any sequence of insert_at and remove_at operations the stored
\* list is well formed: size is 0 exactly when head_id and tail_id are 0;
\* otherwise the head has prev = 0, the tail has next = 0, the links of the
\* stored nodes are mutual, following next from head_id reaches tail_id after
\* size - 1 links, and the number of stored nodes is size.  The store is
\* looked at between two calls: the store a call leaves, whether it returned
\* or raised, is the store of the state after it.
C35_WellFormed == Idle => WellFormed(db)

\* The list after three appends and a removal from the middle: nodes 1 and
\* 3 are left and are linked to each other.
C35_Witness ==
    /\ Idle
    /\ next_id(db) = 3 /\ len(db) = 2
    /\ StoredIds(db) = {1, 3}
    /\ head_id(db) = 1 /\ tail_id(db) = 3
    /\ _get_node_by_id(db, 1).next = 3
    /\ _get_node_by_id(db, 3).prev = 1
    /\ WellFormed(db)

\* ----------------------------------------------------------------- C36
\* The position an index stands for in an insert into a list of `size` values.
InsertPosition(size, index) == IF index < 0 THEN index + size + 1 ELSE index

\* C36 as stated: a successful insert_at(index, v) places v at position p
\* of the resulting list, p = index for index >= 0 and p = index + size + 1
\* for index < 0, with 0 <= p <= size; an index with p < 0 is rejected with
\* IndexOutOfRange and leaves the list unchanged.
C36_AsStated ==
    last.op = "add" =>
        LET size == len(last.pre)
            p == InsertPosition(size, last.index)
        IN  /\ last.exc = None =>
                   /\ 0 <= p /\ p <= size
                   /\ ReadsAs(last.post, InsertAt(ListOf(last.pre), p, last.value))
            /\ p < 0 =>
                   /\ last.exc = OutOfRange
                   /\ last.post = last.pre

\* ----------------------------------------------------------------- C37
\* The position an index stands for in a removal from a list of `size` values.
RemovePosition(size, index) == IF index < 0 THEN index + size ELSE index

\* C37 as stated: a successful remove_at(index) removes exactly the element
\* at position p, p = index for index >= 0 and p = index + size for
\* index < 0, with 0 <= p < size; a negative index with p < 0 is rejected
\* with IndexOutOfRange and removes nothing, leaving counters and nodes
\* unchanged.
C37_AsStated ==
    last.op = "remove" =>
        LET size == len(last.pre)
            p == RemovePosition(size, last.index)
        IN  /\ last.exc = None =>
                   /\ 0 <= p /\ p < size
                   /\ ReadsAs(last.post, RemoveAt(ListOf(last.pre), p))
            /\ p < 0 =>
                   /\ last.exc = OutOfRange
                   /\ last.post = last.pre

\* ----------------------------------------------------------------- C38
ArrayIndexKeys(size) == {ArrayKey(encode_key(i)) : i \in 0..(size - 1)}

\* C38: after any sequence of append and pop operations on an array, the
\* value in the size slot equals the number of stored element keys, the
\* stored element keys are exactly the indices 0..size-1 and size is never
\* negative; a pop on an empty array returns None and changes nothing.
C38_SizeMatchesKeys ==
    /\ ArraySizeSlot(db) >= 0
    /\ ArrayElementKeys(db) = ArrayIndexKeys(ArraySizeSlot(db))
    /\ Cardinality(ArrayElementKeys(db)) = ArraySizeSlot(db)
    /\ \A self \in DOMAIN instances : instances[self].size = ArraySizeSlot(db)
    /\ last.op = "pop" /\ ArraySizeSlot(last.pre) = 0 =>
           /\ last.exc = None /\ last.ret = <<>>
           /\ last.post = last.pre /\ db = last.pre
           /\ last.trace = <<>>

\* A pop on an array that had elements and is empty again: the size slot
\* holds 0, no element key is stored, and the pop returns None.
C38_Witness ==
    /\ last.op = "pop"
    /\ ArraySizeKey \in DOMAIN last.pre
    /\ ArraySizeSlot(last.pre) = 0
    /\ ArrayElementKeys(db) = {}
    /\ last.ret = <<>>
    /\ db = last.pre

\* ----------------------------------------------------------------- C39
\* C39: ACTIVE is absorbing.  Stated as the step of the induction: every
\* address that is_score_active finds active before a call (a deployment
\* transaction, a put, an activation, a do_deploy or a bootstrap run,
\* successful or failed) is found active at its return or raise and after
\* its transaction; and a put_deploy_info_and_tx_params that succeeds on an
\* existing record leaves its deploy_state and current_tx_hash unchanged.
C39_ActiveAbsorbing ==
    /\ \A a \in ContractAddresses :
           is_score_active(last.pre, a) =>
               /\ is_score_active(last.post, a)
               /\ is_score_active(db, a)
    /\ PutCalled /\ last.exc = None /\ HasDeployInfo(last.pre, Target) =>
           /\ get_deploy_info(last.post, Target).deploy_state =
                  get_deploy_info(last.pre, Target).deploy_state
           /\ get_deploy_info(last.post, Target).current_tx_hash =
                  get_deploy_info(last.pre, Target).current_tx_hash
           /\ get_deploy_info(db, Target) = get_deploy_info(last.post, Target)

\* A new pending deployment written on an active record that already had
\* one: the record stays ACTIVE with its current hash, only next_tx_hash moves.
C39_Witness ==
    /\ PutCalled /\ last.exc = None
    /\ is_score_active(last.pre, Target)
    /\ get_deploy_info(last.pre, Target).next_tx_hash \in TxHashes
    /\ get_deploy_info(db, Target).next_tx_hash = last.args.tx_hash
    /\ get_deploy_info(db, Target).next_tx_hash # get_deploy_info(last.pre, Target).next_tx_hash
    /\ is_score_active(db, Target)
    /\ get_deploy_info(db, Target).current_tx_hash =
           get_deploy_info(last.pre, Target).current_tx_hash

\* ----------------------------------------------------------------- C40
\* Every ACTIVE record whose current_tx_hash is not the sentinel has the
\* DeployTxParams of that hash stored, and stored for its own address.
CurrentHasTxParams(d) ==
    \A a \in ContractAddresses :
        /\ HasDeployInfo(d, a)
        /\ get_deploy_info(d, a).deploy_state = "ACTIVE"
        /\ get_deploy_info(d, a).current_tx_hash # ZERO_TX_HASH
        => /\ StoredTxParams(d, get_deploy_info(d, a).current_tx_hash)
           /\ get_deploy_tx_params(d, get_deploy_info(d, a).current_tx_hash).score_address = a

\* No call turns a current_tx_hash that is not the sentinel into the sentinel.
CurrentNotCleared ==
    \A a \in ContractAddresses :
        HasDeployInfo(last.pre, a) /\ get_deploy_info(last.pre, a).current_tx_hash # ZERO_TX_HASH
        => /\ HasDeployInfo(db, a)
           /\ get_deploy_info(db, a).current_tx_hash # ZERO_TX_HASH

\* What the code keeps of C40: the two invariants, in every reachable state.
CurrentHashInvariants == CurrentHasTxParams(db) /\ CurrentNotCleared

====
